---- MODULE Spec2Model ----
(***************************************************************************)
(* UAV trajectory analysis: UAVDataProcessor and TrajectoryAnalyzer        *)
(* (src/unnamed/part_000).                                                 *)
(*                                                                         *)
(* Numbers.  JavaScript doubles are modelled in fixed point:               *)
(*   positions        whole metres            times      whole seconds     *)
(*   networkQuality   whole percent           error      1e-5 m            *)
(*   distances        millimetres             velocity   mm/s              *)
(*   scores (0..100)  thousandths             ratios     ten-thousandths   *)
(*   angles           1e-4 rad                degrees    hundredths        *)
(* Divisions and square roots round down to the unit, so a score agrees    *)
(* with the double of the code except within about 0.01 of a rounding      *)
(* boundary.  NaN and Infinity are two values outside the range of every   *)
(* finite quantity.                                                        *)
(***************************************************************************)
EXTENDS Integers, Sequences, FiniteSets, TLC

VARIABLES
    data,               \* the flight record: position_data, sequence
    pc,                 \* position in the analysis
    index,              \* detectNetworkDegradation: forEach index (0-based)
    degradationStart,   \* detectNetworkDegradation: open window or null
    events,             \* detectNetworkDegradation: events pushed so far
    degradationEvents,  \* what detectNetworkDegradation returned
    networkSegments,    \* what segmentByNetworkQuality returned
    trajectoryReport,   \* what generateTrajectoryReport returned
    qualityAssessment,  \* what assessFlightQuality returned
    networkAnalysis,    \* what analyzeNetworkPerformance returned
    flightReport,       \* what generateReport returned
    validation,         \* what validateFlightData returned
    repeatedReport,     \* what a second generateTrajectoryReport returned
    performanceMetrics, \* what calculatePerformanceMetrics returned
    analyses,           \* startAnalysis: the closure of each request
    emitted,            \* startAnalysis: what each request's closure emitted
    request             \* the HTTP request in hand and what the server did with it

vars == <<data, pc, index, degradationStart, events, degradationEvents,
          networkSegments, trajectoryReport, qualityAssessment,
          networkAnalysis, flightReport, validation, repeatedReport,
          performanceMetrics, analyses, emitted, request>>

-----------------------------------------------------------------------------
(* JavaScript values *)

null == [null |-> TRUE]

undefined == -1

NaN == -2000000001

Infinity == 2000000000

MinusInfinity == -2000000000

IsFinite(v) == v # NaN /\ v # Infinity /\ v # MinusInfinity

Scale == 1000

Abs(v) == IF v < 0 THEN -v ELSE v

Max(a, b) == IF a >= b THEN a ELSE b

Min(a, b) == IF a <= b THEN a ELSE b

RECURSIVE SqrtBetween(_, _, _)
SqrtBetween(n, lo, hi) ==
    IF lo >= hi THEN lo
    ELSE LET mid == (lo + hi + 1) \div 2
         IN  IF mid * mid <= n THEN SqrtBetween(n, mid, hi)
             ELSE SqrtBetween(n, lo, mid - 1)

\* Math.sqrt, rounded down; n < 2^31 so the root is below 46341
Sqrt(n) == SqrtBetween(n, 0, Min(n, 46340))

RECURSIVE Sum(_)
Sum(s) == IF s = <<>> THEN 0 ELSE Head(s) + Sum(Tail(s))

Map(s, Op(_)) == [k \in 1..Len(s) |-> Op(s[k])]

RECURSIVE Smallest(_)
Smallest(values) ==
    IF Len(values) = 1 THEN values[1] ELSE Min(Head(values), Smallest(Tail(values)))

RECURSIVE Largest(_)
Largest(values) ==
    IF Len(values) = 1 THEN values[1] ELSE Max(Head(values), Largest(Tail(values)))

\* Math.max(...values) and Math.min(...values): -Infinity and Infinity when
\* the array is empty
MathMax(values) == IF Len(values) = 0 THEN MinusInfinity ELSE Largest(values)

MathMin(values) == IF Len(values) = 0 THEN Infinity ELSE Smallest(values)

\* a running maximum that starts from 0, over values that are not negative
MaxOrZero(values) == IF Len(values) = 0 THEN 0 ELSE Largest(values)

\* pos.networkQuality || 100 : undefined and 0 are both falsy
OrDefault100(networkQuality) ==
    IF networkQuality = undefined \/ networkQuality = 0 THEN 100
    ELSE networkQuality

-----------------------------------------------------------------------------
(* UAVDataProcessor.validateFlightData.  A field an object lacks is a      *)
(* field outside the DOMAIN of the record.                                 *)

required == <<"timestamp", "position_data", "sequence">>

requiredPointFields == <<"x", "y", "z", "time", "phase">>

\* the fields of the list, in its order, that the object lacks
MissingFields(object, fields) ==
    SelectSeq(fields, LAMBDA field : field \notin DOMAIN object)

validateFlightData(upload) ==
    IF MissingFields(upload, required) # <<>>
    THEN [valid |-> FALSE,
          error |-> <<"Missing required field", Head(MissingFields(upload, required))>>]
    ELSE IF Len(upload.position_data) = 0
    THEN [valid |-> FALSE, error |-> <<"Position data must be a non-empty array">>]
    ELSE LET firstPoint == upload.position_data[1]
         IN  IF MissingFields(firstPoint, requiredPointFields) # <<>>
             THEN [valid |-> FALSE,
                   error |-> <<"Missing field in position data",
                               Head(MissingFields(firstPoint, requiredPointFields))>>]
             ELSE [valid |-> TRUE]

-----------------------------------------------------------------------------
(* UAVDataProcessor.detectNetworkDegradation *)

qualityThreshold == 70

durationThreshold == 2

classifyDegradationSeverity(minQuality) ==
    IF minQuality < 30 THEN "severe"
    ELSE IF minQuality < 50 THEN "moderate"
    ELSE "mild"

\* the event pushed when a window closes at sample pos (0-based index i)
DegradationEvent(start, pos, i) ==
    [startIndex    |-> start.index,
     endIndex      |-> i,
     startTime     |-> start.time,
     endTime       |-> pos.time,
     duration      |-> pos.time - start.time,
     minQuality    |-> start.quality,
     startPosition |-> start.position,
     endPosition   |-> <<pos.x, pos.y, pos.z>>,
     severity      |-> classifyDegradationSeverity(start.quality)]

\* first branch of the callback: open a window
OpensWindow(quality, start) == quality < qualityThreshold /\ start = null

\* second branch of the callback: close the open window
ClosesWindow(quality, start) == quality >= qualityThreshold /\ start # null

\* whether a closing window is long enough to be reported
LongEnough(duration) == duration >= durationThreshold

\* the window after the if / else-if of the callback
WindowAfterBranch(start, pos, i, quality) ==
    IF OpensWindow(quality, start)
    THEN [index |-> i, time |-> pos.time, quality |-> quality,
          position |-> <<pos.x, pos.y, pos.z>>]
    ELSE IF ClosesWindow(quality, start) THEN null
    ELSE start

\* the callback without its trailing if: the window keeps its first quality
TrackMinimumNoUpdate(start, quality) == start

\* the trailing if of the callback: track the minimum of the open window
TrackMinimum(start, quality) ==
    IF start # null /\ quality < start.quality
    THEN [start EXCEPT !.quality = quality]
    ELSE start

\* one call of the forEach callback: the detector state <<window, events>>
\* after sample pos at 0-based index i
DetectCallback(start, evs, pos, i) ==
    LET quality == OrDefault100(pos.networkQuality)
        evs2    == IF ClosesWindow(quality, start)
                      /\ LongEnough(pos.time - start.time)
                   THEN Append(evs, DegradationEvent(start, pos, i))
                   ELSE evs
    IN  [start  |-> TrackMinimum(WindowAfterBranch(start, pos, i, quality), quality),
         events |-> evs2]

RECURSIVE DetectFrom(_, _, _, _)
DetectFrom(positions, i, start, evs) ==
    IF i >= Len(positions) THEN evs
    ELSE LET r == DetectCallback(start, evs, positions[i + 1], i)
         IN  DetectFrom(positions, i + 1, r.start, r.events)

\* the whole function, as its callers use it
detectNetworkDegradation(positions) == DetectFrom(positions, 0, null, <<>>)

-----------------------------------------------------------------------------
(* TrajectoryAnalyzer.segmentByNetworkQuality *)

QualityBand(quality) ==
    IF quality >= 90 THEN "excellent"
    ELSE IF quality >= 70 THEN "good"
    ELSE IF quality >= 50 THEN "fair"
    ELSE "poor"

\* the band each sample is pushed to, in sample order
BandOf(pos) == QualityBand(OrDefault100(pos.networkQuality))

calculateMean(values) ==
    IF Len(values) = 0 THEN 0 ELSE Sum(values) \div Len(values)

SelectBand(positions, band) == SelectSeq(positions, LAMBDA p : BandOf(p) = band)

ErrorOf(pos) == pos.error

SegmentOf(positions, band) ==
    LET seg == SelectBand(positions, band)
    IN  [count |-> Len(seg), avgError |-> calculateMean(Map(seg, ErrorOf))]

segmentByNetworkQuality(positions) ==
    [excellent |-> SegmentOf(positions, "excellent"),
     good      |-> SegmentOf(positions, "good"),
     fair      |-> SegmentOf(positions, "fair"),
     poor      |-> SegmentOf(positions, "poor")]

-----------------------------------------------------------------------------
(* Arithmetic on values that may be NaN or Infinity *)

\* ratios are kept in ten-thousandths
RatioScale == 10000

\* errors, and the 0..1 scores of the stability analysis, are kept in
\* hundred-thousandths (of a metre, of 1)
Unit == 100000

\* a / b for a >= 0, b >= 0: 0/0 is NaN, a/0 is Infinity
Ratio(a, b) ==
    IF b = 0 THEN (IF a = 0 THEN NaN ELSE Infinity)
    ELSE (a * RatioScale) \div b

\* Math.round of a value in thousandths: the nearest whole number, halves up
Round(v) == IF IsFinite(v) THEN (v + 500) \div Scale ELSE v

\* a < b and a >= b as JavaScript decides them: false when a is NaN
Less(a, b) == a # NaN /\ a < b

AtLeast(a, b) == a # NaN /\ a >= b

-----------------------------------------------------------------------------
(* Geometry *)

\* Math.sqrt(dx^2 + dy^2 + dz^2), in millimetres
Distance(dx, dy, dz) == Sqrt((dx * dx + dy * dy + dz * dz) * Scale * Scale)

PI == 31416

\* Math.atan of p/q for 0 <= p <= q, q > 0
AtanOfRatio(p, q) ==
    CASE p = 0         -> 0
      [] p = q         -> 7854
      [] 4 * p = q     -> 2450
      [] 3 * p = q     -> 3218
      [] 2 * p = q     -> 4636
      [] 3 * p = 2 * q -> 5880
      [] 4 * p = 3 * q -> 6435

\* Math.atan2(dy, dx); the differences passed in are never -0
Atan2(dy, dx) ==
    IF dx = 0 /\ dy = 0 THEN 0
    ELSE LET ax == Abs(dx)
             ay == Abs(dy)
             a  == IF ay <= ax THEN AtanOfRatio(ay, ax)
                   ELSE PI \div 2 - AtanOfRatio(ax, ay)
         IN  IF dx >= 0 THEN (IF dy >= 0 THEN a ELSE -a)
             ELSE (IF dy >= 0 THEN PI - a ELSE a - PI)

\* the bearing change left as it is
NoNormalization(bearingChange) == bearingChange

\* while (bearingChange > Math.PI) bearingChange -= 2 * Math.PI
RECURSIVE WhileAbovePi(_)
WhileAbovePi(bearingChange) ==
    IF bearingChange > PI THEN WhileAbovePi(bearingChange - 2 * PI)
    ELSE bearingChange

\* while (bearingChange < -Math.PI) bearingChange += 2 * Math.PI
RECURSIVE WhileBelowMinusPi(_)
WhileBelowMinusPi(bearingChange) ==
    IF bearingChange < -PI THEN WhileBelowMinusPi(bearingChange + 2 * PI)
    ELSE bearingChange

NormalizeBearingChange(bearingChange) ==
    WhileBelowMinusPi(WhileAbovePi(bearingChange))

\* radians * 180 / Math.PI, in hundredths of a degree
ToDegrees(radians) ==
    IF radians >= 0 THEN (radians * 18000) \div PI
    ELSE -((-radians * 18000) \div PI)

-----------------------------------------------------------------------------
(* TrajectoryAnalyzer.calculatePathDeviation *)

\* if (pos.target): a sample either carries a target or has no such field
HasTarget(pos) == "target" \in DOMAIN pos

\* the distance from a sample to its target, in millimetres
DeviationOf(pos) ==
    Distance(pos.x - pos.target.x, pos.y - pos.target.y, pos.z - pos.target.z)

\* TrajectoryAnalyzer.calculateTrend.  The operands of
\* (secondMean - firstMean) / firstMean, both multiplied by the lengths of
\* the two halves so that the means stay whole
TrendChange(values) ==
    LET half       == Len(values) \div 2
        firstHalf  == SubSeq(values, 1, half)
        secondHalf == SubSeq(values, half + 1, Len(values))
        firstMean  == Sum(firstHalf) * Len(secondHalf)
        secondMean == Sum(secondHalf) * Len(firstHalf)
    IN  [dividend |-> secondMean - firstMean, divisor |-> firstMean]

\* change > 0.1 and change < -0.1.  JavaScript divides by 0 without an
\* error: x / 0 is Infinity or -Infinity by the sign of x, 0 / 0 is NaN and
\* compares false
calculateTrend(values) ==
    IF Len(values) < 2 THEN "stable"
    ELSE LET change == TrendChange(values)
             above  == IF change.divisor = 0 THEN change.dividend > 0
                       ELSE IF change.divisor > 0
                       THEN 10 * change.dividend > change.divisor
                       ELSE 10 * change.dividend < change.divisor
             below  == IF change.divisor = 0 THEN change.dividend < 0
                       ELSE IF change.divisor > 0
                       THEN 10 * change.dividend < -change.divisor
                       ELSE 10 * change.dividend > -change.divisor
         IN  IF above THEN "improving"
             ELSE IF below THEN "degrading"
             ELSE "stable"

calculatePathDeviation(positions) ==
    LET deviations == Map(SelectSeq(positions, HasTarget), DeviationOf)
    IN  [averageDeviation |-> IF Len(deviations) > 0
                                 THEN Sum(deviations) \div Len(deviations) ELSE 0,
         maxDeviation     |-> MaxOrZero(deviations),
         minDeviation     |-> MathMin(deviations),
         deviationTrend   |-> calculateTrend(deviations)]

-----------------------------------------------------------------------------
(* TrajectoryAnalyzer.analyzeVelocity *)

\* the loop left at the first pair whose time does not advance
RECURSIVE VelocityLoopAborting(_, _, _, _)
VelocityLoopAborting(positions, i, velocities, accelerations) ==
    IF i > Len(positions) - 1 \/ positions[i + 1].time - positions[i].time <= 0
    THEN [velocities |-> velocities, accelerations |-> accelerations]
    ELSE LET curr      == positions[i + 1]
             prev      == positions[i]
             deltaTime == curr.time - prev.time
             distance  == Distance(curr.x - prev.x, curr.y - prev.y, curr.z - prev.z)
         IN  VelocityLoopAborting(positions, i + 1,
                                  Append(velocities, distance \div deltaTime),
                                  accelerations)

\* the arrays velocities and accelerations after the loop has run from the
\* 0-based index i on, in mm/s and mm/s^2
RECURSIVE VelocityLoop(_, _, _, _)
VelocityLoop(positions, i, velocities, accelerations) ==
    IF i > Len(positions) - 1
    THEN [velocities |-> velocities, accelerations |-> accelerations]
    ELSE LET curr      == positions[i + 1]
             prev      == positions[i]
             deltaTime == curr.time - prev.time
             distance  == Distance(curr.x - prev.x, curr.y - prev.y, curr.z - prev.z)
             velocity  == distance \div deltaTime
             pushed    == Append(velocities, velocity)
         IN  IF deltaTime > 0
             THEN VelocityLoop(positions, i + 1, pushed,
                      IF i > 1 /\ Len(pushed) > 1
                      THEN Append(accelerations,
                               (velocity - pushed[Len(pushed) - 1]) \div deltaTime)
                      ELSE accelerations)
             ELSE VelocityLoop(positions, i + 1, velocities, accelerations)

analyzeVelocity(positions) ==
    LET loop          == VelocityLoop(positions, 1, <<>>, <<>>)
        velocities    == loop.velocities
        accelerations == loop.accelerations
    IN  [averageVelocity     |-> calculateMean(velocities),
         maxVelocity         |-> MathMax(velocities),
         minVelocity         |-> MathMin(velocities),
         averageAcceleration |-> calculateMean(accelerations),
         maxAcceleration     |-> MathMax(accelerations),
         velocityProfile     |-> velocities,
         accelerationProfile |-> accelerations]

-----------------------------------------------------------------------------
(* TrajectoryAnalyzer.analyzeTurns *)

turnThreshold == 2600

sharpThreshold == 4500

\* the normalized bearing change at the interior sample i (0-based)
BearingChangeAt(positions, i) ==
    LET prev == positions[i]
        curr == positions[i + 1]
        next == positions[i + 2]
        bearing1 == Atan2(curr.y - prev.y, curr.x - prev.x)
        bearing2 == Atan2(next.y - curr.y, next.x - curr.x)
    IN  NormalizeBearingChange(bearing2 - bearing1)

\* the loop bounds: for (let i = 1; i < positions.length - 1; i++)
InteriorIndexes(positions) == 1..(Len(positions) - 2)

\* the local array bearings
Bearings(positions) ==
    [i \in InteriorIndexes(positions) |-> BearingChangeAt(positions, i)]

IsTurn(bearingChange) == Abs(bearingChange) > turnThreshold

\* sharp from 45 degrees on
IsSharpInclusive(turn) == Abs(turn.bearingChange) >= sharpThreshold

IsSharp(turn) == Abs(turn.bearingChange) > sharpThreshold

Turn(positions, i) ==
    LET bearingChange == BearingChangeAt(positions, i)
    IN  [index         |-> i,
         position      |-> <<positions[i + 1].x, positions[i + 1].y, positions[i + 1].z>>,
         bearingChange |-> ToDegrees(bearingChange),
         sharpness     |-> Abs(bearingChange),
         phase         |-> positions[i + 1].phase]

RECURSIVE TurnsFrom(_, _)
TurnsFrom(positions, i) ==
    IF i > Len(positions) - 2 THEN <<>>
    ELSE IF IsTurn(BearingChangeAt(positions, i))
         THEN <<Turn(positions, i)>> \o TurnsFrom(positions, i + 1)
         ELSE TurnsFrom(positions, i + 1)

analyzeTurns(positions) ==
    LET turns == TurnsFrom(positions, 1)
        bearings == Bearings(positions)
    IN  [totalTurns      |-> Len(turns),
         sharpTurns      |-> Len(SelectSeq(turns, IsSharp)),
         averageTurnRate |-> calculateMean(Map(bearings, Abs)),
         maxTurnRate     |-> MathMax(Map(bearings, Abs)),
         turns           |-> turns]

-----------------------------------------------------------------------------
(* TrajectoryAnalyzer.calculateEfficiency *)

\* the flown distance measured on the ground only
RECURSIVE ActualDistanceFlat(_, _)
ActualDistanceFlat(positions, i) ==
    IF i > Len(positions) THEN 0
    ELSE Distance(positions[i].x - positions[i - 1].x,
                  positions[i].y - positions[i - 1].y, 0)
         + ActualDistanceFlat(positions, i + 1)

RECURSIVE ActualDistanceFrom(_, _)
ActualDistanceFrom(positions, i) ==
    IF i > Len(positions) THEN 0
    ELSE Distance(positions[i].x - positions[i - 1].x,
                  positions[i].y - positions[i - 1].y,
                  positions[i].z - positions[i - 1].z)
         + ActualDistanceFrom(positions, i + 1)

RECURSIVE IdealDistanceFrom(_, _)
IdealDistanceFrom(sequence, i) ==
    IF i > Len(sequence) THEN 0
    ELSE Distance(sequence[i][1] - sequence[i - 1][1],
                  sequence[i][2] - sequence[i - 1][2],
                  sequence[i][3] - sequence[i - 1][3])
         + IdealDistanceFrom(sequence, i + 1)

calculateEfficiency(positions, sequence) ==
    LET actualDistance == ActualDistanceFrom(positions, 2)
        idealDistance  == IdealDistanceFrom(sequence, 2)
    IN  [actualDistance  |-> actualDistance,
         idealDistance   |-> idealDistance,
         efficiencyRatio |-> Ratio(idealDistance, actualDistance),
         excessDistance  |-> actualDistance - idealDistance]

-----------------------------------------------------------------------------
(* TrajectoryAnalyzer.calculateStabilityMetrics *)

calculateStandardDeviation(values) ==
    IF Len(values) = 0 THEN 0
    ELSE LET mean == calculateMean(values)
             squaredDiffs == [k \in 1..Len(values) |-> (values[k] - mean) * (values[k] - mean)]
         IN  Sqrt(calculateMean(squaredDiffs))

\* the leg's distance taken for its velocity, whatever time it took
DistanceAsVelocity(pos1, pos2) ==
    Distance(pos2.x - pos1.x, pos2.y - pos1.y, pos2.z - pos1.z)

calculateVelocityBetween(pos1, pos2) ==
    LET distance  == Distance(pos2.x - pos1.x, pos2.y - pos1.y, pos2.z - pos1.z)
        deltaTime == pos2.time - pos1.time
    IN  IF deltaTime > 0 THEN distance \div deltaTime ELSE 0

\* the accelerations pushed by calculateJitter from 0-based index i on
RECURSIVE JitterFrom(_, _)
JitterFrom(positions, i) ==
    IF i > Len(positions) - 1 THEN <<>>
    ELSE LET curr      == positions[i + 1]
             prev      == positions[i]
             prevPrev  == positions[i - 1]
             vel1      == calculateVelocityBetween(prevPrev, prev)
             vel2      == calculateVelocityBetween(prev, curr)
             deltaTime == curr.time - prev.time
         IN  IF deltaTime > 0
             THEN <<Abs(vel2 - vel1) \div deltaTime>> \o JitterFrom(positions, i + 1)
             ELSE JitterFrom(positions, i + 1)

calculateJitter(positions) ==
    LET accelerations == JitterFrom(positions, 2)
    IN  [averageJitter |-> calculateMean(accelerations),
         maxJitter     |-> MathMax(accelerations),
         jitterIndex   |-> calculateStandardDeviation(accelerations)]

IsStabilized(pos) == pos.stabilized

\* positions.filter(pos => pos.stabilized).length / positions.length
StabilizationRatio(positions) ==
    (Len(SelectSeq(positions, IsStabilized)) * Unit) \div Len(positions)

calculateStabilityScore(positions) ==
    LET avgError           == calculateMean(Map(positions, ErrorOf))
        stabilizationRate  == StabilizationRatio(positions)
        jitter             == calculateJitter(positions)
        errorScore         == Max(0, Unit - avgError)
        stabilizationScore == stabilizationRate
        jitterScore        == Max(0, Unit - jitter.jitterIndex * (Unit \div Scale))
    IN  \* s hundred-thousandths of 1, times 100, is s thousandths of a point
        (errorScore * 3 + stabilizationScore * 4 + jitterScore * 3) \div 10

InPhase(positions, phase) == SelectSeq(positions, LAMBDA pos : pos.phase = phase)

calculatePhaseStability(positions, phase) ==
    LET phasePositions == InPhase(positions, phase)
    IN  IF Len(phasePositions) = 0 THEN null
        ELSE [stabilizationRate |-> StabilizationRatio(phasePositions),
              averageError      |-> calculateMean(Map(phasePositions, ErrorOf)),
              count             |-> Len(phasePositions)]

calculateStabilityMetrics(positions) ==
    [stabilizationRatio    |-> StabilizationRatio(positions),
     jitterMetrics         |-> calculateJitter(positions),
     waypointStability     |-> calculatePhaseStability(positions, "waypoint"),
     transitStability      |-> calculatePhaseStability(positions, "transit"),
     overallStabilityScore |-> calculateStabilityScore(positions)]

-----------------------------------------------------------------------------
(* TrajectoryAnalyzer.analyzeFlightPhases *)

\* stabilized / length in hundred-thousandths: 0 / 0 is NaN
PhaseStabilizationRate(phasePositions) ==
    IF Len(phasePositions) = 0 THEN NaN ELSE StabilizationRatio(phasePositions)

analyzeFlightPhases(positions) ==
    LET waypoint == InPhase(positions, "waypoint")
        transit  == InPhase(positions, "transit")
    IN  [waypointAnalysis |->
             [count             |-> Len(waypoint),
              averageError      |-> calculateMean(Map(waypoint, ErrorOf)),
              stabilizationRate |-> PhaseStabilizationRate(waypoint)],
         transitAnalysis  |->
             [count        |-> Len(transit),
              averageError |-> calculateMean(Map(transit, ErrorOf))]]

-----------------------------------------------------------------------------
(* TrajectoryAnalyzer.analyzeNetworkCorrelation *)

RECURSIVE Gcd(_, _)
Gcd(a, b) == IF b = 0 THEN a ELSE Gcd(b, a % b)

RECURSIVE GcdOf(_)
GcdOf(values) ==
    IF values = <<>> THEN 0 ELSE Gcd(Abs(Head(values)), GcdOf(Tail(values)))

\* values[i] - mean for each i, up to a positive common factor: taken n-fold
\* (n * values[i] - sum) to stay whole, then divided by the greatest common
\* divisor to stay small.  All zero when the values are all equal.
Differences(values) ==
    LET n    == Len(values)
        fold == [i \in 1..n |-> n * values[i] - Sum(values)]
        g    == GcdOf(fold)
    IN  IF g = 0 THEN fold ELSE [i \in 1..n |-> fold[i] \div g]

\* Pearson's coefficient in ten-thousandths.  A common factor of the
\* differences of x, or of y, cancels between numerator and denominator.
calculateCorrelation(x, y) ==
    IF Len(x) # Len(y) \/ Len(x) = 0 THEN 0
    ELSE LET diffX       == Differences(x)
             diffY       == Differences(y)
             numerator   == Sum([i \in 1..Len(x) |-> diffX[i] * diffY[i]])
             sumXSquared == Sum([i \in 1..Len(x) |-> diffX[i] * diffX[i]])
             sumYSquared == Sum([i \in 1..Len(x) |-> diffY[i] * diffY[i]])
             \* a hundred times the denominator
             denominator == Sqrt(sumXSquared * sumYSquared * 100 * 100)
             magnitude   == (Abs(numerator) * 100 * RatioScale) \div denominator
         IN  IF denominator = 0 THEN 0
             ELSE IF numerator < 0 THEN -magnitude ELSE magnitude

\* Math.floor((pos.networkQuality || 100) / 10) * 10
QualityBin(pos) == (OrDefault100(pos.networkQuality) \div 10) * 10

\* qualityBins[quality]: the errors of the samples of that bin, in sample
\* order; empty when the object has no such key
BinErrors(positions, quality) ==
    Map(SelectSeq(positions, LAMBDA pos : QualityBin(pos) = quality), ErrorOf)

\* the for-of loop from the key quality on.  Object.entries lists the keys
\* of qualityBins, which are whole numbers, in ascending order, whatever
\* the order they were created in.
RECURSIVE ThresholdScan(_, _, _)
ThresholdScan(positions, quality, baselineError) ==
    IF quality > 100 THEN 100
    ELSE LET errors   == BinErrors(positions, quality)
             avgError == calculateMean(errors)
         IN  IF Len(errors) = 0
             THEN ThresholdScan(positions, quality + 10, baselineError)
             ELSE IF quality = 100 \/ quality = 90
             THEN ThresholdScan(positions, quality + 10, avgError)
             ELSE IF avgError * 10 > baselineError * 15
             THEN quality
             ELSE ThresholdScan(positions, quality + 10, baselineError)

findCriticalNetworkThreshold(positions) == ThresholdScan(positions, 0, 0)

calculateDegradationImpact(positions) ==
    [criticalThreshold |-> findCriticalNetworkThreshold(positions)]

analyzeNetworkCorrelation(positions) ==
    LET networkQualities == [k \in 1..Len(positions) |->
                                 OrDefault100(positions[k].networkQuality)]
        errors           == Map(positions, ErrorOf)
    IN  [networkErrorCorrelation |-> calculateCorrelation(networkQualities, errors),
         networkSegments         |-> segmentByNetworkQuality(positions),
         degradationImpact       |-> calculateDegradationImpact(positions)]

-----------------------------------------------------------------------------
(* TrajectoryAnalyzer.generateTrajectoryReport: the sub-analyses the        *)
(* quality assessment and the turn and efficiency figures are read from,    *)
(* and the recommendations drawn from them                                  *)

analyzeTrajectory(flightData) ==
    [pathDeviation        |-> calculatePathDeviation(flightData.position_data),
     velocityAnalysis     |-> analyzeVelocity(flightData.position_data),
     turnAnalysis         |-> analyzeTurns(flightData.position_data),
     stabilityMetrics     |-> calculateStabilityMetrics(flightData.position_data),
     networkCorrelation   |-> analyzeNetworkCorrelation(flightData.position_data),
     phaseAnalysis        |-> analyzeFlightPhases(flightData.position_data),
     trajectoryEfficiency |->
         calculateEfficiency(flightData.position_data, flightData.sequence)]

\* stabilizationRatio < 0.7
StabilityRule(analysis) ==
    Less(analysis.stabilityMetrics.stabilizationRatio, (7 * Unit) \div 10)

\* networkErrorCorrelation < -0.5
NetworkRule(analysis) ==
    Less(analysis.networkCorrelation.networkErrorCorrelation, -(RatioScale \div 2))

\* efficiencyRatio < 0.8
EfficiencyRule(analysis) ==
    Less(analysis.trajectoryEfficiency.efficiencyRatio, (8 * RatioScale) \div 10)

\* sharpTurns >= totalTurns * 0.3, which holds of a flight without turns
SmoothnessRuleInclusive(analysis) ==
    analysis.turnAnalysis.sharpTurns * 10 >= analysis.turnAnalysis.totalTurns * 3

\* sharpTurns > totalTurns * 0.3
SmoothnessRule(analysis) ==
    analysis.turnAnalysis.sharpTurns * 10 > analysis.turnAnalysis.totalTurns * 3

Recommendation(category, severity) ==
    [category |-> category, severity |-> severity]

\* the same four recommendations pushed in the opposite order
generateRecommendationsReversed(analysis) ==
    (IF SmoothnessRule(analysis)
         THEN <<Recommendation("Smoothness", "low")>> ELSE <<>>)
    \o (IF EfficiencyRule(analysis)
         THEN <<Recommendation("Efficiency", "medium")>> ELSE <<>>)
    \o (IF NetworkRule(analysis)
         THEN <<Recommendation("Network", "medium")>> ELSE <<>>)
    \o (IF StabilityRule(analysis)
         THEN <<Recommendation("Stability", "high")>> ELSE <<>>)

\* the four ifs of generateRecommendations, each pushing when its rule holds
generateRecommendations(analysis) ==
    (IF StabilityRule(analysis)
         THEN <<Recommendation("Stability", "high")>> ELSE <<>>)
    \o (IF NetworkRule(analysis)
         THEN <<Recommendation("Network", "medium")>> ELSE <<>>)
    \o (IF EfficiencyRule(analysis)
         THEN <<Recommendation("Efficiency", "medium")>> ELSE <<>>)
    \o (IF SmoothnessRule(analysis)
         THEN <<Recommendation("Smoothness", "low")>> ELSE <<>>)

\* a report that keeps its recommendations for the first call only
generateTrajectoryReportOnce(flightData) ==
    LET analysis == analyzeTrajectory(flightData)
    IN  [detailed        |-> analysis,
         recommendations |-> IF trajectoryReport = null
                                 THEN generateRecommendations(analysis) ELSE <<>>]

generateTrajectoryReport(flightData) ==
    LET analysis == analyzeTrajectory(flightData)
    IN  [detailed        |-> analysis,
         recommendations |-> generateRecommendations(analysis)]

-----------------------------------------------------------------------------
(* UAVDataProcessor.assessFlightQuality *)

\* Math.max(0, 100 - avgError * 1000), or 100 when no sample has an error
calculateAccuracyScore(positions) ==
    LET errors == SelectSeq(Map(positions, ErrorOf), LAMBDA e : e # undefined)
    IN  IF Len(errors) = 0 THEN 100 * Scale
        ELSE Max(0, 100 * Scale - (Sum(errors) * Scale) \div (Len(errors) * (Unit \div Scale)))

\* p.networkQuality || 100, in hundredths of a percent
EffectiveQualityOf(pos) == OrDefault100(pos.networkQuality) * 100

calculateNetworkAdaptabilityScore(positions) ==
    LET networkQualities == Map(positions, EffectiveQualityOf)
        errors           == Map(positions, ErrorOf)
        qualityVariation == calculateStandardDeviation(networkQualities)
    IN  IF qualityVariation > 20 * 100
        THEN \* errorVariation hundred-thousandths of a metre, times 100,
             \* is errorVariation thousandths of a point
             Max(0, 100 * Scale - calculateStandardDeviation(errors))
        ELSE 100 * Scale

assignQualityGrade(score) ==
    IF AtLeast(score, 90 * Scale) THEN "A"
    ELSE IF AtLeast(score, 80 * Scale) THEN "B"
    ELSE IF AtLeast(score, 70 * Scale) THEN "C"
    ELSE IF AtLeast(score, 60 * Scale) THEN "D"
    ELSE "F"

\* which of the four hints suggestImprovements pushes, in its order
suggestImprovements(accuracy, stability, efficiency, adaptability) ==
    SelectSeq(<<<<"accuracy", accuracy>>, <<"stability", stability>>,
                <<"efficiency", efficiency>>, <<"adaptability", adaptability>>>>,
              LAMBDA h : Less(h[2], 70 * Scale))

\* accuracy * 0.3 + stability * 0.25 + efficiency * 0.25 + adaptability * 0.2
WeightedScore(accuracy, stability, efficiency, adaptability) ==
    IF IsFinite(efficiency)
    THEN (accuracy * 30 + stability * 25 + efficiency * 25 + adaptability * 20) \div 100
    ELSE efficiency

\* the efficiency score assessFlightQuality takes from the report
EfficiencyScore(efficiencyRatio) ==
    IF IsFinite(efficiencyRatio) THEN (efficiencyRatio * 100) \div (RatioScale \div Scale)
    ELSE efficiencyRatio

assessFlightQuality(flightData, report) ==
    LET positions         == flightData.position_data
        accuracyScore     == calculateAccuracyScore(positions)
        stabilityScore    == report.detailed.stabilityMetrics.overallStabilityScore
        efficiencyScore   ==
            EfficiencyScore(report.detailed.trajectoryEfficiency.efficiencyRatio)
        adaptabilityScore == calculateNetworkAdaptabilityScore(positions)
        overallScore      == WeightedScore(accuracyScore, stabilityScore,
                                           efficiencyScore, adaptabilityScore)
    IN  [overallScore |-> Round(overallScore),
         breakdown    |-> [accuracy     |-> Round(accuracyScore),
                           stability    |-> Round(stabilityScore),
                           efficiency   |-> Round(efficiencyScore),
                           adaptability |-> Round(adaptabilityScore)],
         grade        |-> assignQualityGrade(overallScore),
         improvements |-> suggestImprovements(accuracyScore, stabilityScore,
                                              efficiencyScore, adaptabilityScore)]

-----------------------------------------------------------------------------
(* UAVDataProcessor.analyzeNetworkPerformance *)

\* average (rounded down to the unit of the values), sorted[0] and
\* sorted[length - 1]
calculateStats(values) ==
    IF Len(values) = 0 THEN [average |-> 0, min |-> 0, max |-> 0]
    ELSE [average |-> Sum(values) \div Len(values),
          min     |-> Smallest(values),
          max     |-> Largest(values)]

\* quality < threshold and quality >= threshold on a raw networkQuality:
\* both are false when the sample has none
RawBelow(networkQuality, threshold) ==
    networkQuality # undefined /\ networkQuality < threshold

RawAtLeast(networkQuality, threshold) ==
    networkQuality # undefined /\ networkQuality >= threshold

\* the recovery events pushed from 0-based index i on
RECURSIVE RecoveryEventsFrom(_, _)
RecoveryEventsFrom(positions, i) ==
    IF i > Len(positions) - 1 THEN <<>>
    ELSE LET curr == positions[i + 1]
             prev == positions[i]
         IN  IF RawBelow(prev.networkQuality, qualityThreshold)
                /\ RawAtLeast(curr.networkQuality, qualityThreshold)
             THEN <<[index       |-> i,
                     time        |-> curr.time,
                     fromQuality |-> prev.networkQuality,
                     toQuality   |-> curr.networkQuality,
                     improvement |-> curr.networkQuality - prev.networkQuality]>>
                  \o RecoveryEventsFrom(positions, i + 1)
             ELSE RecoveryEventsFrom(positions, i + 1)

\* the inner for loop: from 0-based index i down to 0, the recovery time
\* pushed at the first sample of quality >= 70, nothing when there is none
RECURSIVE RecoveryTimeFrom(_, _, _)
RecoveryTimeFrom(recovery, positions, i) ==
    IF i < 0 THEN <<>>
    ELSE IF RawAtLeast(positions[i + 1].networkQuality, qualityThreshold)
         THEN <<recovery.time - positions[i + 1].time>>
         ELSE RecoveryTimeFrom(recovery, positions, i - 1)

RECURSIVE RecoveryTimes(_, _)
RecoveryTimes(recoveryEvents, positions) ==
    IF recoveryEvents = <<>> THEN <<>>
    ELSE RecoveryTimeFrom(Head(recoveryEvents), positions,
                          Head(recoveryEvents).index - 1)
         \o RecoveryTimes(Tail(recoveryEvents), positions)

\* in thousandths of a second
calculateAverageRecoveryTime(recoveryEvents, positions) ==
    IF Len(recoveryEvents) = 0 THEN 0
    ELSE LET recoveryTimes == RecoveryTimes(recoveryEvents, positions)
         IN  IF Len(recoveryTimes) > 0
             THEN (Sum(recoveryTimes) * Scale) \div Len(recoveryTimes)
             ELSE 0

analyzeNetworkRecovery(positions) ==
    LET recoveryEvents == RecoveryEventsFrom(positions, 1)
    IN  [totalRecoveries     |-> Len(recoveryEvents),
         averageRecoveryTime |-> calculateAverageRecoveryTime(recoveryEvents, positions),
         recoveryEvents      |-> recoveryEvents]

IsSevere(event) == event.severity = "severe"

generateNetworkRecommendations(networkStats, degradationEvts) ==
    (IF networkStats.average < 70
         THEN <<[type |-> "network_quality", severity |-> "high"]>> ELSE <<>>)
    \o (IF Len(degradationEvts) > 0 /\ Len(SelectSeq(degradationEvts, IsSevere)) > 0
         THEN <<[type |-> "degradation", severity |-> "high",
                 count |-> Len(SelectSeq(degradationEvts, IsSevere))]>>
         ELSE <<>>)

analyzeNetworkPerformance(flightData) ==
    LET positions        == flightData.position_data
        networkQualities == [k \in 1..Len(positions) |->
                                 OrDefault100(positions[k].networkQuality)]
        networkStats     == calculateStats(networkQualities)
        degradationEvts  == detectNetworkDegradation(positions)
    IN  [qualityStats      |-> networkStats,
         degradationEvents |-> degradationEvts,
         recoveryMetrics   |-> analyzeNetworkRecovery(positions),
         recommendations   |->
             generateNetworkRecommendations(networkStats, degradationEvts)]

-----------------------------------------------------------------------------
(* UAVDataProcessor.generateReport, on the record processFlightData built *)

PerformanceHint(improvement) ==
    [category |-> "Performance", severity |-> "medium", message |-> improvement[1]]

generateReport(flightData) ==
    [executiveSummary |->
         [overallScore |-> flightData.qualityAssessment.overallScore,
          grade        |-> flightData.qualityAssessment.grade],
     recommendations  |->
         flightData.trajectoryAnalysis.recommendations
         \o flightData.networkAnalysis.recommendations
         \o Map(flightData.qualityAssessment.improvements, PerformanceHint)]

-----------------------------------------------------------------------------
(* The network analysis of one flight.  The array is fixed when the        *)
(* function is called and the loop never reads ahead, so the model draws   *)
(* each sample when forEach reaches it: the samples move along x, one      *)
(* metre a sample, with the quality and the time step drawn here.          *)

MaxNetSamples == 4

NetQualities == {undefined, 0, 20, 40, 60, 70}

TimeSteps == {1, 2}

NetSample(k, quality, time) ==
    [x |-> k - 1, y |-> 0, z |-> 0, time |-> time, phase |-> "transit",
     error |-> 0, networkQuality |-> quality, stabilized |-> TRUE]

NextTime(positions, step) ==
    IF positions = <<>> THEN 0 ELSE positions[Len(positions)].time + step

Init ==
    /\ data = [position_data |-> <<>>, sequence |-> <<>>]
    /\ pc = "detect"
    /\ index = 0
    /\ degradationStart = null
    /\ events = <<>>
    /\ degradationEvents = null
    /\ networkSegments = null
    /\ trajectoryReport = null
    /\ qualityAssessment = null
    /\ networkAnalysis = null
    /\ flightReport = null
    /\ validation = null
    /\ repeatedReport = null
    /\ performanceMetrics = null
    /\ analyses = null
    /\ emitted = null
    /\ request = null

\* one iteration of positions.forEach in detectNetworkDegradation
DetectStep ==
    /\ pc = "detect"
    /\ index < MaxNetSamples
    /\ \E quality \in NetQualities, step \in TimeSteps :
         LET pos == NetSample(index + 1, quality, NextTime(data.position_data, step))
             r   == DetectCallback(degradationStart, events, pos, index)
         IN  /\ data' = [data EXCEPT !.position_data = Append(@, pos)]
             /\ degradationStart' = r.start
             /\ events' = r.events
    /\ index' = index + 1
    /\ UNCHANGED <<pc, degradationEvents, networkSegments, trajectoryReport,
                   qualityAssessment, networkAnalysis, flightReport,
                   validation, repeatedReport, performanceMetrics, analyses,
                   emitted, request>>

\* the array ends: return events
DetectReturn ==
    /\ pc = "detect"
    /\ degradationEvents' = events
    /\ pc' = "segment"
    /\ UNCHANGED <<data, index, degradationStart, events, networkSegments,
                   trajectoryReport, qualityAssessment, networkAnalysis,
                   flightReport, validation, repeatedReport,
                   performanceMetrics, analyses, emitted, request>>

SegmentByNetworkQuality ==
    /\ pc = "segment"
    /\ networkSegments' = segmentByNetworkQuality(data.position_data)
    /\ pc' = "done"
    /\ UNCHANGED <<data, index, degradationStart, events, degradationEvents,
                   trajectoryReport, qualityAssessment, networkAnalysis,
                   flightReport, validation, repeatedReport,
                   performanceMetrics, analyses, emitted, request>>

Next == DetectStep \/ DetectReturn \/ SegmentByNetworkQuality

Spec == Init /\ [][Next]_vars

-----------------------------------------------------------------------------
(* processFlightData.  The flight record is put together one sample at a   *)
(* time and then analysed in the order processFlightData calls the         *)
(* analyses: generateTrajectoryReport, analyzeNetworkPerformance,          *)
(* assessFlightQuality.                                                    *)

InitFlight ==
    /\ data = [position_data |-> <<>>, sequence |-> <<>>]
    /\ pc = "record"
    /\ index = 0
    /\ degradationStart = null
    /\ events = <<>>
    /\ degradationEvents = null
    /\ networkSegments = null
    /\ trajectoryReport = null
    /\ qualityAssessment = null
    /\ networkAnalysis = null
    /\ flightReport = null
    /\ validation = null
    /\ repeatedReport = null
    /\ performanceMetrics = null
    /\ analyses = null
    /\ emitted = null
    /\ request = null

Sample(point, time, error, networkQuality, stabilized) ==
    [x |-> point[1], y |-> point[2], z |-> point[3], time |-> time,
     phase |-> "transit", error |-> error, networkQuality |-> networkQuality,
     stabilized |-> stabilized]

PointOf(pos) == <<pos.x, pos.y, pos.z>>

\* the next element of jsonData.position_data
RecordSample(pos) ==
    /\ pc = "record"
    /\ data' = [data EXCEPT !.position_data = Append(@, pos)]
    /\ UNCHANGED <<pc, index, degradationStart, events, degradationEvents,
                   networkSegments, trajectoryReport, qualityAssessment,
                   networkAnalysis, flightReport, validation, repeatedReport,
                   performanceMetrics, analyses, emitted, request>>

\* the record is complete; validateFlightData wants a sample in it
SubmitFlight(sequence) ==
    /\ pc = "record"
    /\ Len(data.position_data) > 0
    /\ data' = [data EXCEPT !.sequence = sequence]
    /\ pc' = "report"
    /\ UNCHANGED <<index, degradationStart, events, degradationEvents,
                   networkSegments, trajectoryReport, qualityAssessment,
                   networkAnalysis, flightReport, validation, repeatedReport,
                   performanceMetrics, analyses, emitted, request>>

GenerateTrajectoryReport ==
    /\ pc = "report"
    /\ trajectoryReport' = generateTrajectoryReport(data)
    /\ networkSegments' = trajectoryReport'.detailed.networkCorrelation.networkSegments
    /\ pc' = "network"
    /\ UNCHANGED <<data, index, degradationStart, events, degradationEvents,
                   qualityAssessment, networkAnalysis, flightReport,
                   validation, repeatedReport, performanceMetrics, analyses,
                   emitted, request>>

\* the analysis with the default quality stored into the samples it reads
AnalyzeNetworkPerformanceInPlace ==
    /\ pc = "network"
    /\ networkAnalysis' = analyzeNetworkPerformance(data)
    /\ degradationEvents' = networkAnalysis'.degradationEvents
    /\ data' = [data EXCEPT !.position_data =
                   [k \in 1..Len(@) |->
                      [@[k] EXCEPT !.networkQuality = OrDefault100(@)]]]
    /\ pc' = "assess"
    /\ UNCHANGED <<index, degradationStart, events, networkSegments,
                   trajectoryReport, qualityAssessment, flightReport,
                   validation, repeatedReport, performanceMetrics, analyses,
                   emitted, request>>

AnalyzeNetworkPerformance ==
    /\ pc = "network"
    /\ networkAnalysis' = analyzeNetworkPerformance(data)
    /\ degradationEvents' = networkAnalysis'.degradationEvents
    /\ pc' = "assess"
    /\ UNCHANGED <<data, index, degradationStart, events, networkSegments,
                   trajectoryReport, qualityAssessment, flightReport,
                   validation, repeatedReport, performanceMetrics, analyses,
                   emitted, request>>

AssessFlightQuality ==
    /\ pc = "assess"
    /\ qualityAssessment' = assessFlightQuality(data, trajectoryReport)
    /\ pc' = "done"
    /\ UNCHANGED <<data, index, degradationStart, events, degradationEvents,
                   networkSegments, trajectoryReport, networkAnalysis,
                   flightReport, validation, repeatedReport,
                   performanceMetrics, analyses, emitted, request>>

\* a second call of generateTrajectoryReport on the record of the first
GenerateTrajectoryReportAgain ==
    /\ pc = "network"
    /\ repeatedReport' = generateTrajectoryReport(data)
    /\ pc' = "repeated"
    /\ UNCHANGED <<data, index, degradationStart, events, degradationEvents,
                   networkSegments, trajectoryReport, qualityAssessment,
                   networkAnalysis, flightReport, validation,
                   performanceMetrics, analyses, emitted, request>>

\* generateReport on what processFlightData returned for the record
GenerateReport ==
    /\ pc = "done"
    /\ flightReport' = generateReport([trajectoryAnalysis |-> trajectoryReport,
                                       networkAnalysis    |-> networkAnalysis,
                                       qualityAssessment  |-> qualityAssessment])
    /\ pc' = "reported"
    /\ UNCHANGED <<data, index, degradationStart, events, degradationEvents,
                   networkSegments, trajectoryReport, qualityAssessment,
                   networkAnalysis, validation, repeatedReport,
                   performanceMetrics, analyses, emitted, request>>

\* a route through every recorded position
Waypoints(positions) == Map(positions, PointOf)

\* a route from the first recorded position straight to the last
EndToEnd(positions) ==
    <<PointOf(positions[1]), PointOf(positions[Len(positions)])>>

-----------------------------------------------------------------------------
(* Flights over a small grid, one sample a second, for the turn and        *)
(* efficiency analyses                                                     *)

MaxPathSamples == 3

PathPoints ==
    {<<x, y, 0>> : x \in 0..3, y \in 0..1} \cup {<<0, 0, 1>>, <<1, 0, 1>>, <<2, 0, 2>>}

RecordPathSample ==
    /\ Len(data.position_data) < MaxPathSamples
    /\ \E point \in PathPoints :
         RecordSample(Sample(point, Len(data.position_data), 0, 100, TRUE))

SubmitPath ==
    /\ data.position_data # <<>>
    /\ \E sequence \in {Waypoints(data.position_data), EndToEnd(data.position_data)} :
         SubmitFlight(sequence)

NextTrajectory ==
    \/ RecordPathSample
    \/ SubmitPath
    \/ GenerateTrajectoryReport
    \/ AnalyzeNetworkPerformance
    \/ AssessFlightQuality

SpecTrajectory == InitFlight /\ [][NextTrajectory]_vars

-----------------------------------------------------------------------------
(* Flights due East at 1 m/s whose samples differ in error, stabilization  *)
(* and network quality, against ideal routes of several lengths, for the   *)
(* quality assessment                                                      *)

MaxQualitySamples == 3

MaxRouteLength == 3

QualityErrors == {0, 2000, 4000}

QualityLevels == {40, 100}

RecordQualitySample ==
    /\ Len(data.position_data) < MaxQualitySamples
    /\ \E error \in QualityErrors, networkQuality \in QualityLevels,
          stabilized \in BOOLEAN :
         LET k == Len(data.position_data)
         IN  RecordSample(Sample(<<k, 0, 0>>, k, error, networkQuality, stabilized))

SubmitRoute ==
    \E length \in 1..MaxRouteLength :
        SubmitFlight(<<<<0, 0, 0>>, <<length, 0, 0>>>>)

NextQuality ==
    \/ RecordQualitySample
    \/ SubmitRoute
    \/ GenerateTrajectoryReport
    \/ AnalyzeNetworkPerformance
    \/ AssessFlightQuality

SpecQuality == InitFlight /\ [][NextQuality]_vars

-----------------------------------------------------------------------------
(* Flights with every sample at quality 100, error 0 and stabilized, that  *)
(* leave the origin in any compass direction and then keep the heading or  *)
(* turn left, at speeds and sampling intervals that vary from leg to leg   *)

MaxSteadySamples == 4

Directions == {d \in {-1, 0, 1} \X {-1, 0, 1} : d # <<0, 0>>}

Speeds == {0, 1, 2}

Sign(v) == IF v > 0 THEN 1 ELSE IF v < 0 THEN -1 ELSE 0

\* the direction of the first leg that moves, <<0, 0>> if none has
RECURSIVE HeadingFrom(_, _)
HeadingFrom(positions, k) ==
    IF k > Len(positions) THEN <<0, 0>>
    ELSE LET d == <<Sign(positions[k].x - positions[k - 1].x),
                    Sign(positions[k].y - positions[k - 1].y)>>
         IN  IF d # <<0, 0>> THEN d ELSE HeadingFrom(positions, k + 1)

Headings(positions) ==
    LET h == HeadingFrom(positions, 2)
    IN  IF h = <<0, 0>> THEN Directions ELSE {h, <<-h[2], h[1]>>}

RecordSteadySample ==
    /\ Len(data.position_data) < MaxSteadySamples
    /\ IF data.position_data = <<>>
       THEN RecordSample(Sample(<<0, 0, 0>>, 0, 0, 100, TRUE))
       ELSE \E d \in Headings(data.position_data), speed \in Speeds, step \in TimeSteps :
              LET last == data.position_data[Len(data.position_data)]
              IN  RecordSample(Sample(<<last.x + d[1] * speed * step,
                                        last.y + d[2] * speed * step, 0>>,
                                      last.time + step, 0, 100, TRUE))

NextSteady ==
    \/ RecordSteadySample
    \/ SubmitPath
    \/ GenerateTrajectoryReport
    \/ AnalyzeNetworkPerformance
    \/ AssessFlightQuality

SpecSteady == InitFlight /\ [][NextSteady]_vars

-----------------------------------------------------------------------------
(* Flights from the origin, one sample a second, whose legs go East, North *)
(* or East-North-East and whose samples differ in error, network quality   *)
(* and stabilization, carried through to the flight report                 *)

MaxAdviceSamples == 3

AdviceLegs == {<<1, 0, 0>>, <<0, 1, 0>>, <<2, 1, 0>>}

\* error, networkQuality, stabilized: every pair of values of two of the
\* three occurs
AdviceKinds ==
    {<<0, 100, TRUE>>, <<4000, 20, TRUE>>, <<4000, 100, FALSE>>, <<0, 20, FALSE>>}

RecordAdviceSample ==
    /\ Len(data.position_data) < MaxAdviceSamples
    /\ \E leg \in AdviceLegs, kind \in AdviceKinds :
         LET k     == Len(data.position_data)
             point == IF k = 0 THEN <<0, 0, 0>>
                      ELSE <<data.position_data[k].x + leg[1],
                             data.position_data[k].y + leg[2],
                             data.position_data[k].z + leg[3]>>
         IN  RecordSample(Sample(point, k, kind[1], kind[2], kind[3]))

NextAdvice ==
    \/ RecordAdviceSample
    \/ SubmitPath
    \/ GenerateTrajectoryReport
    \/ AnalyzeNetworkPerformance
    \/ AssessFlightQuality
    \/ GenerateReport

SpecAdvice == InitFlight /\ [][NextAdvice]_vars

\* the same flights, with generateTrajectoryReport called twice
NextRepeat ==
    \/ RecordAdviceSample
    \/ SubmitPath
    \/ GenerateTrajectoryReport
    \/ GenerateTrajectoryReportAgain

SpecRepeat == InitFlight /\ [][NextRepeat]_vars

-----------------------------------------------------------------------------
(* Uploaded records whose samples may each lack one field and which may    *)
(* themselves lack one field, handed to validateFlightData                 *)

MaxUploadSamples == 3

PointFields == {"x", "y", "z", "time", "phase"}

UploadFields == {"timestamp", "position_data", "sequence"}

InitUpload ==
    /\ data = [timestamp |-> 1, position_data |-> <<>>, sequence |-> <<>>]
    /\ pc = "record"
    /\ index = 0
    /\ degradationStart = null
    /\ events = <<>>
    /\ degradationEvents = null
    /\ networkSegments = null
    /\ trajectoryReport = null
    /\ qualityAssessment = null
    /\ networkAnalysis = null
    /\ flightReport = null
    /\ validation = null
    /\ repeatedReport = null
    /\ performanceMetrics = null
    /\ analyses = null
    /\ emitted = null
    /\ request = null

\* the sample a flight would record k seconds in, with only the given fields
PointWith(fields, k) ==
    LET point == [x |-> k, y |-> 0, z |-> 0, time |-> k, phase |-> "transit"]
    IN  [field \in fields |-> point[field]]

RecordUploadSample ==
    /\ pc = "record"
    /\ Len(data.position_data) < MaxUploadSamples
    /\ \E fields \in {PointFields} \cup {PointFields \ {field} : field \in PointFields} :
         RecordSample(PointWith(fields, Len(data.position_data)))

\* the upload arrives whole or without one of its fields
ValidateFlightData ==
    /\ pc = "record"
    /\ \E fields \in {UploadFields} \cup {UploadFields \ {field} : field \in UploadFields} :
         /\ data' = [field \in fields |-> data[field]]
         /\ validation' = validateFlightData(data')
    /\ pc' = "validated"
    /\ UNCHANGED <<index, degradationStart, events, degradationEvents,
                   networkSegments, trajectoryReport, qualityAssessment,
                   networkAnalysis, flightReport, repeatedReport,
                   performanceMetrics, analyses, emitted, request>>

NextUpload ==
    \/ RecordUploadSample
    \/ ValidateFlightData

SpecUpload == InitUpload /\ [][NextUpload]_vars

-----------------------------------------------------------------------------
(* Flights due East at 1 m/s whose samples differ in phase, error and      *)
(* stabilization, for the per-phase breakdowns                             *)

MaxPhaseSamples == 3

Phases == {"waypoint", "transit"}

PhaseErrors == {0, 2000}

RecordPhaseSample ==
    /\ Len(data.position_data) < MaxPhaseSamples
    /\ \E phase \in Phases, error \in PhaseErrors, stabilized \in BOOLEAN :
         LET k == Len(data.position_data)
         IN  RecordSample([Sample(<<k, 0, 0>>, k, error, 100, stabilized)
                               EXCEPT !.phase = phase])

NextPhases ==
    \/ RecordPhaseSample
    \/ SubmitPath
    \/ GenerateTrajectoryReport

SpecPhases == InitFlight /\ [][NextPhases]_vars

-----------------------------------------------------------------------------
(* Flights due East whose samples differ in network quality, some without  *)
(* any, at uneven sampling intervals, for the recovery analysis            *)

MaxRecoverySamples == 4

RecoveryQualities == {undefined, 20, 70, 90}

RecordRecoverySample ==
    /\ Len(data.position_data) < MaxRecoverySamples
    /\ \E quality \in RecoveryQualities, step \in TimeSteps :
         RecordSample(NetSample(Len(data.position_data) + 1, quality,
                                NextTime(data.position_data, step)))

SubmitWaypoints ==
    /\ data.position_data # <<>>
    /\ SubmitFlight(Waypoints(data.position_data))

NextRecovery ==
    \/ RecordRecoverySample
    \/ SubmitWaypoints
    \/ GenerateTrajectoryReport
    \/ AnalyzeNetworkPerformance

SpecRecovery == InitFlight /\ [][NextRecovery]_vars

-----------------------------------------------------------------------------
(* Flights due East in legs of one or two metres whose timestamps may      *)
(* repeat or go back, for the velocity analysis                            *)

MaxTimingSamples == 4

LegLengths == {1, 2}

TimingSteps == {-1, 0, 1}

RecordTimingSample ==
    /\ Len(data.position_data) < MaxTimingSamples
    /\ \E length \in LegLengths, step \in TimingSteps :
         LET k    == Len(data.position_data)
             x    == IF k = 0 THEN 0 ELSE data.position_data[k].x + length
         IN  RecordSample(Sample(<<x, 0, 0>>, NextTime(data.position_data, step),
                                 0, 100, TRUE))

NextTiming ==
    \/ RecordTimingSample
    \/ SubmitWaypoints
    \/ GenerateTrajectoryReport

SpecTiming == InitFlight /\ [][NextTiming]_vars

-----------------------------------------------------------------------------
(* Claims about degradation detection, over the samples read so far.       *)
(* A sample's quality is its networkQuality, or 100 when it carries none.  *)

Quality(pos) ==
    IF pos.networkQuality = undefined THEN 100 ELSE pos.networkQuality

NumSamples == Len(data.position_data)

\* quality and time of the sample at 0-based index i
QualityAt(i) == Quality(data.position_data[i + 1])

TimeOf(i) == data.position_data[i + 1].time

Below(i) == QualityAt(i) < 70

\* s is the first sample of a maximal run of samples below 70
RunStart(s) == Below(s) /\ (s = 0 \/ ~Below(s - 1))

\* the index after the run that starts at s: the first sample at or above
\* 70, or the number of samples when the run is still open
RunEnd(s) ==
    CHOOSE e \in (s + 1)..NumSamples :
        /\ \A k \in s..(e - 1) : Below(k)
        /\ e = NumSamples \/ ~Below(e)

ClosedRuns == {s \in 0..(NumSamples - 1) : RunStart(s) /\ RunEnd(s) < NumSamples}

LongRuns == {s \in ClosedRuns : TimeOf(RunEnd(s)) - TimeOf(s) >= 2}

ShortRuns == ClosedRuns \ LongRuns

EventsOfRun(evs, s) ==
    {k \in 1..Len(evs) : evs[k].startIndex = s /\ evs[k].endIndex = RunEnd(s)}

MinQualityIn(s, e) ==
    CHOOSE m \in {QualityAt(k) : k \in s..(e - 1)} :
        \A k \in s..(e - 1) : m <= QualityAt(k)

\* C1: the events are exactly one per maximal run of samples below 70 that
\* is followed by a sample at or above 70 at least 2 s after the run's first
\* sample, from the run's first sample to that sample, and no others.
C1_OneEventPerLongRun ==
    /\ \A s \in LongRuns : Cardinality(EventsOfRun(events, s)) = 1
    /\ \A k \in 1..Len(events) :
         events[k].startIndex \in LongRuns
         /\ events[k].endIndex = RunEnd(events[k].startIndex)
    /\ degradationEvents # null => degradationEvents = events

\* C2: a run that ends less than 2 s after its first sample leaves no event,
\* the detector is idle once the run has ended, and a long run after it is
\* still reported from its own first sample.
C2_ShortRunDroppedAndReset ==
    /\ \A s \in ShortRuns :
         \A k \in 1..Len(events) :
            ~(events[k].startIndex \in s..(RunEnd(s) - 1))
            /\ events[k].endIndex # RunEnd(s)
    /\ (NumSamples > 0 /\ ~Below(NumSamples - 1)) => degradationStart = null
    /\ \A s \in LongRuns :
         (\E t \in ShortRuns : t < s) => EventsOfRun(events, s) # {}

SeverityOf(minQuality) ==
    IF minQuality < 30 THEN "severe"
    ELSE IF minQuality < 50 THEN "moderate"
    ELSE "mild"

\* C3: every event carries the minimum quality of the samples
\* startIndex..endIndex-1 and the severity of that minimum; a closed window
\* of at least 2 s whose minimum is 20 gives exactly one event, a severe one.
C3_MinQualityAndSeverity ==
    /\ \A k \in 1..Len(events) :
         LET ev == events[k]
         IN  /\ ev.startIndex < ev.endIndex
             /\ ev.minQuality = MinQualityIn(ev.startIndex, ev.endIndex)
             /\ ev.severity = SeverityOf(ev.minQuality)
    /\ \A s \in LongRuns :
         MinQualityIn(s, RunEnd(s)) = 20 =>
            /\ Cardinality(EventsOfRun(events, s)) = 1
            /\ \A k \in EventsOfRun(events, s) : events[k].severity = "severe"

\* a window that opened at 60, dropped to 20 and was reported as severe
C3_Witness ==
    /\ pc = "done"
    /\ Len(degradationEvents) = 1
    /\ degradationEvents[1].severity = "severe"
    /\ QualityAt(degradationEvents[1].startIndex) = 60
    /\ degradationEvents[1].endIndex - degradationEvents[1].startIndex = 3

SpecBand(quality) ==
    IF quality >= 90 THEN "excellent"
    ELSE IF quality >= 70 THEN "good"
    ELSE IF quality >= 50 THEN "fair"
    ELSE "poor"

CountBand(band) ==
    Cardinality({k \in 0..(NumSamples - 1) : SpecBand(QualityAt(k)) = band})

\* C4: only an absent networkQuality counts as 100: a sample with
\* networkQuality 0 is below the threshold, so a window is open after it
\* (it starts or continues one and never ends one), and it is banded poor.
C4_ZeroQualityIsZero ==
    /\ (NumSamples > 0 /\ data.position_data[NumSamples].networkQuality = 0)
          => degradationStart # null
    /\ networkSegments # null =>
          \A band \in {"excellent", "good", "fair", "poor"} :
             networkSegments[band].count = CountBand(band)

\* the same detector, read with the quality it computes itself (line 355):
\* its events are exactly the long closed runs of that quality
OwnBelow(i) == OrDefault100(data.position_data[i + 1].networkQuality) < 70

OwnRunEnd(s) ==
    CHOOSE e \in (s + 1)..NumSamples :
        /\ \A k \in s..(e - 1) : OwnBelow(k)
        /\ e = NumSamples \/ ~OwnBelow(e)

OwnLongRuns ==
    {s \in 0..(NumSamples - 1) :
        /\ OwnBelow(s) /\ (s = 0 \/ ~OwnBelow(s - 1))
        /\ OwnRunEnd(s) < NumSamples
        /\ TimeOf(OwnRunEnd(s)) - TimeOf(s) >= 2}

DetectorFollowsOwnQuality ==
    /\ Len(events) = Cardinality(OwnLongRuns)
    /\ \A k \in 1..Len(events) :
         events[k].startIndex \in OwnLongRuns
         /\ events[k].endIndex = OwnRunEnd(events[k].startIndex)
    /\ \A k \in 1..(Len(events) - 1) :
         events[k].endIndex < events[k + 1].startIndex

-----------------------------------------------------------------------------
(* Claims about the quality assessment *)

Positions == data.position_data

TurnAnalysis == trajectoryReport.detailed.turnAnalysis

Efficiency == trajectoryReport.detailed.trajectoryEfficiency

\* the grade mapping, applied to a whole score
MappedGrade(overallScore) ==
    IF AtLeast(overallScore, 90) THEN "A"
    ELSE IF AtLeast(overallScore, 80) THEN "B"
    ELSE IF AtLeast(overallScore, 70) THEN "C"
    ELSE IF AtLeast(overallScore, 60) THEN "D"
    ELSE IF Less(overallScore, 60) THEN "F"
    ELSE "none"

\* C5: the grade of every assessment is the grade mapping applied to the
\* overallScore the assessment reports, which is the rounded score.
C5_GradeFollowsReportedScore ==
    qualityAssessment # null =>
        qualityAssessment.grade = MappedGrade(qualityAssessment.overallScore)

\* 100 x ratio, held between 0 and 100, as a whole score
ClampedEfficiency(efficiencyRatio) ==
    Round(Min(100 * Scale, Max(0, EfficiencyScore(efficiencyRatio))))

\* C6: the efficiency score of every assessment is 100 x efficiencyRatio
\* clamped to [0,100], and the reported overallScore lies in [0,100]
\* (stated for the flights that covered some distance, whose ratio is a
\* number).
C6_EfficiencyClampedScoreInRange ==
    (qualityAssessment # null /\ IsFinite(Efficiency.efficiencyRatio)) =>
        /\ qualityAssessment.breakdown.efficiency
              = ClampedEfficiency(Efficiency.efficiencyRatio)
        /\ qualityAssessment.overallScore \in 0..100

\* the displacement from sample k to sample k + 1 (k from 1)
Leg(k) ==
    <<Positions[k + 1].x - Positions[k].x, Positions[k + 1].y - Positions[k].y,
      Positions[k + 1].z - Positions[k].z>>

Lapse(k) == Positions[k + 1].time - Positions[k].time

\* every leg covers the first leg's displacement per second, and it moves
ConstantVelocity ==
    /\ Leg(1) # <<0, 0, 0>>
    /\ \A k \in 1..(NumSamples - 1) : \A c \in 1..3 :
          Leg(k)[c] * Lapse(1) = Leg(1)[c] * Lapse(k)

PerfectFlight ==
    /\ NumSamples >= 3
    /\ \A k \in 1..NumSamples :
          /\ Positions[k].z = Positions[1].z
          /\ Positions[k].networkQuality = 100
          /\ Positions[k].error = 0
          /\ Positions[k].stabilized
    /\ \A k \in 1..(NumSamples - 1) : Lapse(k) > 0
    /\ ConstantVelocity
    /\ data.sequence \in {Waypoints(Positions), EndToEnd(Positions)}

-----------------------------------------------------------------------------
(* Claims about efficiency and turns *)

Cross(u, v) ==
    <<u[2] * v[3] - u[3] * v[2], u[3] * v[1] - u[1] * v[3],
      u[1] * v[2] - u[2] * v[1]>>

Dot(u, v) == u[1] * v[1] + u[2] * v[2] + u[3] * v[3]

\* at least two samples, every leg a positive multiple of the first
StraightAdvancing ==
    /\ NumSamples >= 2
    /\ Leg(1) # <<0, 0, 0>>
    /\ \A k \in 1..(NumSamples - 1) :
          Cross(Leg(k), Leg(1)) = <<0, 0, 0>> /\ Dot(Leg(k), Leg(1)) > 0

\* C8: when the sample positions are the waypoints of the ideal route, in
\* order, on one straight line and strictly advancing, efficiencyRatio is
\* 1.0, excessDistance is 0 and totalTurns is 0.
C8_RouteFlownExactly ==
    (trajectoryReport # null /\ StraightAdvancing
        /\ data.sequence = Waypoints(Positions)) =>
        /\ Efficiency.efficiencyRatio = RatioScale
        /\ Efficiency.excessDistance = 0
        /\ TurnAnalysis.totalTurns = 0

\* such a flight of three samples that climbs as it advances
C8_Witness ==
    /\ pc = "done"
    /\ StraightAdvancing
    /\ data.sequence = Waypoints(Positions)
    /\ NumSamples = 3
    /\ Positions[3].z = 2
    /\ Efficiency.efficiencyRatio = RatioScale

\* the size of an angle difference, taken around the circle
AngleMagnitude(d) ==
    LET m == Abs(d) % (2 * PI)
    IN  IF m > PI THEN 2 * PI - m ELSE m

\* the size of the change of horizontal heading at interior sample i
HeadingChange(i) ==
    AngleMagnitude(Atan2(Leg(i + 1)[2], Leg(i + 1)[1]) - Atan2(Leg(i)[2], Leg(i)[1]))

DegreesOf(radians) == (radians * 18000) \div PI

TurnsAt(i) ==
    {k \in 1..Len(TurnAnalysis.turns) : TurnAnalysis.turns[k].index = i}

\* a turn at interior sample i exactly when the heading changes by more than
\* 0.26 rad there, sharp exactly when by more than 45 degrees; the
\* right-angle flight has one turn, of 90 degrees, sharp
TurnsAsClaimed ==
    /\ TurnAnalysis.totalTurns = Len(TurnAnalysis.turns)
    /\ \A k \in 1..Len(TurnAnalysis.turns) :
          /\ TurnAnalysis.turns[k].index \in 1..(NumSamples - 2)
          /\ Abs(TurnAnalysis.turns[k].bearingChange)
                = DegreesOf(HeadingChange(TurnAnalysis.turns[k].index))
    /\ \A i \in 1..(NumSamples - 2) :
          Cardinality(TurnsAt(i)) = IF HeadingChange(i) > 2600 THEN 1 ELSE 0
    /\ TurnAnalysis.sharpTurns =
          Cardinality({i \in 1..(NumSamples - 2) :
                          HeadingChange(i) > 2600 /\ DegreesOf(HeadingChange(i)) > 4500})
    /\ TurnAnalysis.sharpTurns <= TurnAnalysis.totalTurns
    /\ Waypoints(Positions) = <<<<0, 0, 0>>, <<1, 0, 0>>, <<1, 1, 0>>>> =>
          /\ TurnAnalysis.totalTurns = 1
          /\ TurnAnalysis.sharpTurns = 1
          /\ TurnAnalysis.turns[1].index = 1
          /\ TurnAnalysis.turns[1].bearingChange = 9000

\* C9 as stated: turns and sharp turns as above, and
\* sharpTurns <= totalTurns <= n - 2 for every flight.
C9_TurnsBoundedByNMinus2 ==
    trajectoryReport # null =>
        /\ TurnsAsClaimed
        /\ TurnAnalysis.totalTurns <= NumSamples - 2

\* C9 amended: turns and sharp turns as above, and
\* sharpTurns <= totalTurns <= n - 2 for every flight of n >= 2 samples;
\* a flight of one sample has no turns.
C9_TurnsBoundedByInteriorSamples ==
    trajectoryReport # null =>
        /\ TurnsAsClaimed
        /\ TurnAnalysis.totalTurns <= Max(0, NumSamples - 2)

\* the right-angle flight, analysed
C9_Witness ==
    /\ pc = "done"
    /\ Waypoints(Positions) = <<<<0, 0, 0>>, <<1, 0, 0>>, <<1, 1, 0>>>>
    /\ TurnAnalysis.sharpTurns = 1

\* the heading at interior sample i is reversed: the horizontal legs before
\* and after it point in opposite directions
Reversal(i) ==
    LET u == <<Leg(i)[1], Leg(i)[2], 0>>
        v == <<Leg(i + 1)[1], Leg(i + 1)[2], 0>>
    IN  Cross(u, v) = <<0, 0, 0>> /\ Dot(u, v) < 0

\* C10 as stated: every normalized bearing change is > -pi and <= pi, and
\* every full reversal of heading is reported as +180 degrees.
C10_HalfOpenRange ==
    trajectoryReport # null =>
        /\ \A i \in InteriorIndexes(Positions) :
              Bearings(Positions)[i] > -PI /\ Bearings(Positions)[i] <= PI
        /\ \A i \in InteriorIndexes(Positions) :
              Reversal(i) =>
                 \E k \in TurnsAt(i) : TurnAnalysis.turns[k].bearingChange = 18000

\* C10 amended: every normalized bearing change lies in the closed interval
\* [-pi, pi]; a full reversal is reported as a turn of 180 degrees in
\* magnitude, -180 when the flight was heading West and turns back East.
C10_ClosedRange ==
    trajectoryReport # null =>
        /\ \A i \in InteriorIndexes(Positions) :
              Bearings(Positions)[i] >= -PI /\ Bearings(Positions)[i] <= PI
        /\ \A k \in 1..Len(TurnAnalysis.turns) :
              /\ Abs(TurnAnalysis.turns[k].bearingChange) <= 18000
              /\ TurnAnalysis.turns[k].sharpness <= PI
        /\ \A i \in InteriorIndexes(Positions) :
              Reversal(i) =>
                 \E k \in TurnsAt(i) :
                    /\ Abs(TurnAnalysis.turns[k].bearingChange) = 18000
                    /\ (Leg(i)[1] < 0 /\ Leg(i)[2] = 0) =>
                          TurnAnalysis.turns[k].bearingChange = -18000

\* a reversal from West to East, reported as -180 degrees
C10_Witness ==
    /\ pc = "done"
    /\ \E i \in InteriorIndexes(Positions) :
          /\ Reversal(i)
          /\ Leg(i)[1] < 0 /\ Leg(i)[2] = 0
          /\ \E k \in TurnsAt(i) : TurnAnalysis.turns[k].bearingChange = -18000

-----------------------------------------------------------------------------
(* Claims about the recommendations *)

Analysis == trajectoryReport.detailed

\* the place of a trajectory category in the documented order; 0 for any
\* other entry of a recommendation list
Rank(recommendation) ==
    IF "category" \notin DOMAIN recommendation THEN 0
    ELSE CASE recommendation.category = "Stability"  -> 1
           [] recommendation.category = "Network"    -> 2
           [] recommendation.category = "Efficiency" -> 3
           [] recommendation.category = "Smoothness" -> 4
           [] OTHER -> 0

IsHint(recommendation) ==
    /\ "category" \in DOMAIN recommendation
    /\ recommendation.category = "Performance"

\* C11: the recommendations of a trajectory report are trajectory
\* categories in the order Stability, Network, Efficiency, Smoothness, none
\* twice; and in the flight report every improvement hint stands after every
\* trajectory recommendation.
C11_RecommendationOrder ==
    /\ trajectoryReport # null =>
         LET recs == trajectoryReport.recommendations
         IN  /\ \A i \in 1..Len(recs) : Rank(recs[i]) > 0
             /\ \A i, j \in 1..Len(recs) : i < j => Rank(recs[i]) < Rank(recs[j])
    /\ flightReport # null =>
         LET recs == flightReport.recommendations
         IN  \A i, j \in 1..Len(recs) :
                 Rank(recs[i]) > 0 /\ IsHint(recs[j]) => i < j

\* a flight report with two trajectory recommendations, a network
\* recommendation and a hint
C11_Witness ==
    /\ flightReport # null
    /\ Len(trajectoryReport.recommendations) >= 2
    /\ \E i \in 1..Len(flightReport.recommendations) :
           Rank(flightReport.recommendations[i]) = 0
           /\ ~IsHint(flightReport.recommendations[i])
    /\ \E i \in 1..Len(flightReport.recommendations) :
           IsHint(flightReport.recommendations[i])

Recommends(category, severity) ==
    \E i \in 1..Len(trajectoryReport.recommendations) :
        trajectoryReport.recommendations[i] =
            [category |-> category, severity |-> severity]

CategoryListed(category) ==
    \E i \in 1..Len(trajectoryReport.recommendations) :
        trajectoryReport.recommendations[i].category = category

\* the number of stabilized samples of the record
StabilizedCount ==
    Cardinality({k \in 1..Len(Positions) : Positions[k].stabilized})

\* C12: each rule fires exactly when its own metric crosses its threshold,
\* whatever the other three do: Stability/high iff fewer than 70% of the
\* samples are stabilized, Network/medium iff the correlation is below -0.5,
\* Efficiency/medium iff the ideal length is below 80% of the flown length,
\* Smoothness/low iff more than 30% of the turns are sharp, and never
\* without a turn.
C12_EachRuleOwnThreshold ==
    trajectoryReport # null =>
        /\ Recommends("Stability", "high") <=> StabilizedCount * 10 < 7 * Len(Positions)
        /\ CategoryListed("Stability") => Recommends("Stability", "high")
        /\ Recommends("Network", "medium")
               <=> Analysis.networkCorrelation.networkErrorCorrelation * 2 < -RatioScale
        /\ CategoryListed("Network") => Recommends("Network", "medium")
        /\ Recommends("Efficiency", "medium")
               <=> /\ Efficiency.actualDistance > 0
                   /\ Efficiency.idealDistance * 10 < 8 * Efficiency.actualDistance
        /\ CategoryListed("Efficiency") => Recommends("Efficiency", "medium")
        /\ Recommends("Smoothness", "low")
               <=> TurnAnalysis.sharpTurns * 10 > 3 * TurnAnalysis.totalTurns
        /\ CategoryListed("Smoothness") => Recommends("Smoothness", "low")
        /\ TurnAnalysis.totalTurns = 0 => ~CategoryListed("Smoothness")

\* the Network rule fires alone, on a flight that has a turn
C12_Witness ==
    /\ trajectoryReport # null
    /\ Recommends("Network", "medium")
    /\ ~CategoryListed("Stability")
    /\ ~CategoryListed("Efficiency")
    /\ ~CategoryListed("Smoothness")
    /\ TurnAnalysis.totalTurns > 0

-----------------------------------------------------------------------------
(* Claims about degenerate arithmetic *)

\* every sample of the record is at the position of the first
Hovering == \A k \in 1..Len(Positions) : PointOf(Positions[k]) = PointOf(Positions[1])

\* C13: for a flight whose flown path has length 0 (one sample, or all
\* samples at one position) the efficiency ratio, the efficiency score and
\* the overall score are finite numbers: neither NaN nor Infinity reaches
\* the trajectory report or the quality assessment.
C13_ZeroLengthFlightFinite ==
    qualityAssessment # null /\ Hovering =>
        /\ IsFinite(Efficiency.efficiencyRatio)
        /\ IsFinite(qualityAssessment.breakdown.efficiency)
        /\ IsFinite(qualityAssessment.overallScore)

Unbounded(v) == v = Infinity \/ v = MinusInfinity

\* C14: when the series behind a metric is empty (no velocity, no
\* acceleration, no jitter sample, no bearing change, no deviation) its
\* minimum and maximum are 0 or a no-data marker, never plus or minus
\* infinity.
C14_EmptySeriesAggregates ==
    trajectoryReport # null =>
        /\ Len(Analysis.velocityAnalysis.velocityProfile) = 0 =>
               /\ ~Unbounded(Analysis.velocityAnalysis.maxVelocity)
               /\ ~Unbounded(Analysis.velocityAnalysis.minVelocity)
        /\ Len(Analysis.velocityAnalysis.accelerationProfile) = 0 =>
               ~Unbounded(Analysis.velocityAnalysis.maxAcceleration)
        /\ Len(Positions) < 3 =>
               /\ ~Unbounded(Analysis.stabilityMetrics.jitterMetrics.maxJitter)
               /\ ~Unbounded(Analysis.turnAnalysis.maxTurnRate)
        /\ (\A k \in 1..Len(Positions) : ~HasTarget(Positions[k])) =>
               ~Unbounded(Analysis.pathDeviation.minDeviation)

-----------------------------------------------------------------------------
(* Claims about validation *)

\* C15: validateFlightData accepts a record only when position_data is
\* present and not empty and every sample of it, not only the first,
\* carries x, y, z and time; every other record is rejected with an error.
C15_EverySampleValidated ==
    validation # null =>
        (validation.valid =>
            /\ UploadFields \subseteq DOMAIN data
            /\ Len(data.position_data) > 0
            /\ \A k \in 1..Len(data.position_data) :
                   {"x", "y", "z", "time"} \subseteq DOMAIN data.position_data[k])

-----------------------------------------------------------------------------
(* Claims about the per-phase breakdowns *)

PhaseCount(phase) ==
    Cardinality({k \in 1..Len(Positions) : Positions[k].phase = phase})

PhaseStabilized(phase) ==
    Cardinality({k \in 1..Len(Positions) :
                    Positions[k].phase = phase /\ Positions[k].stabilized})

\* the four per-phase breakdowns of a trajectory report, with their phase
Breakdowns ==
    {<<"waypoint", Analysis.stabilityMetrics.waypointStability>>,
     <<"transit", Analysis.stabilityMetrics.transitStability>>,
     <<"waypoint", Analysis.phaseAnalysis.waypointAnalysis>>,
     <<"transit", Analysis.phaseAnalysis.transitAnalysis>>}

\* C16: in every per-phase breakdown a phase without samples is reported
\* as null, never as a record of zero or NaN figures, and a phase with
\* k > 0 samples reports count = k and, where it reports a stabilization
\* rate, stabilized / k.
C16_EmptyPhaseAbsent ==
    trajectoryReport # null =>
        \A b \in Breakdowns :
            IF PhaseCount(b[1]) = 0 THEN b[2] = null
            ELSE /\ b[2] # null
                 /\ b[2].count = PhaseCount(b[1])
                 /\ "stabilizationRate" \in DOMAIN b[2] =>
                        b[2].stabilizationRate =
                            (PhaseStabilized(b[1]) * Unit) \div PhaseCount(b[1])

-----------------------------------------------------------------------------
(* Claims about the critical network threshold *)

\* the samples whose quality lies in lo..hi
Bucket(lo, hi) ==
    {k \in 1..Len(Positions) : Quality(Positions[k]) \in lo..hi}

RECURSIVE ErrorSum(_)
ErrorSum(samples) ==
    IF samples = {} THEN 0
    ELSE LET k == CHOOSE k \in samples : TRUE
         IN  Positions[k].error + ErrorSum(samples \ {k})

\* the mean error of the decile from quality d on exceeds 1.5 times the
\* mean error of the bucket 90-100 (taken as 0 when that bucket is empty)
Exceeds(d) ==
    LET decile   == Bucket(d, d + 9)
        baseline == Bucket(90, 100)
    IN  /\ decile # {}
        /\ IF baseline = {} THEN ErrorSum(decile) > 0
           ELSE 2 * ErrorSum(decile) * Cardinality(baseline)
                    > 3 * ErrorSum(baseline) * Cardinality(decile)

Deciles == {d * 10 : d \in 0..8}

CriticalThreshold == Analysis.networkCorrelation.degradationImpact.criticalThreshold

\* C17: the critical threshold is the highest decile below 90 whose mean
\* error exceeds 1.5 times the mean error of the bucket 90-100, and 100
\* when no decile does.
C17_HighestExceedingDecile ==
    trajectoryReport # null =>
        IF \E d \in Deciles : Exceeds(d)
        THEN /\ CriticalThreshold \in Deciles
             /\ Exceeds(CriticalThreshold)
             /\ \A d \in Deciles : Exceeds(d) => d <= CriticalThreshold
        ELSE CriticalThreshold = 100

-----------------------------------------------------------------------------
(* Claims about network recovery.  A sample's quality is its               *)
(* networkQuality, or 100 when it carries none.                            *)

\* the samples that recover: the sample before is below 70, this one is not
Recoveries ==
    {i \in 2..Len(Positions) :
        Quality(Positions[i - 1]) < 70 /\ Quality(Positions[i]) >= 70}

\* the earlier samples of quality 70 or more
EarlierGood(i) == {j \in 1..(i - 1) : Quality(Positions[j]) >= 70}

NearestEarlierGood(i) == CHOOSE j \in EarlierGood(i) : \A h \in EarlierGood(i) : h <= j

RECURSIVE ElapsedSum(_)
ElapsedSum(recoveries) ==
    IF recoveries = {} THEN 0
    ELSE LET i == CHOOSE i \in recoveries : TRUE
         IN  (Positions[i].time - Positions[NearestEarlierGood(i)].time)
             + ElapsedSum(recoveries \ {i})

CountedRecoveries == {i \in Recoveries : EarlierGood(i) # {}}

\* C18: averageRecoveryTime is the mean, over the recoveries that have an
\* earlier sample of quality 70 or more, of the time from the nearest such
\* sample to the recovering sample; it is 0 when there is none.
C18_AverageRecoveryTime ==
    networkAnalysis # null =>
        networkAnalysis.recoveryMetrics.averageRecoveryTime =
            IF CountedRecoveries = {} THEN 0
            ELSE (ElapsedSum(CountedRecoveries) * Scale) \div Cardinality(CountedRecoveries)

\* the same on records whose samples all carry a networkQuality
RecoveryTimeWhenEverySampleHasQuality ==
    (\A k \in 1..Len(Positions) : Positions[k].networkQuality # undefined)
        => C18_AverageRecoveryTime

-----------------------------------------------------------------------------
(* Claims about the velocity analysis *)

\* the time from sample i to sample i + 1
TimeDifference(i) == Positions[i + 1].time - Positions[i].time

\* the pairs (i, i + 1) whose time advances, by their first sample
AdvancingPairs == {i \in 1..(Len(Positions) - 1) : TimeDifference(i) > 0}

\* the velocity of the pair (i, i + 1), in mm/s
PairVelocity(i) ==
    (Abs(Positions[i + 1].x - Positions[i].x) * Scale) \div TimeDifference(i)

\* how many advancing pairs come no later than the pair i
OrdinalOf(i) == Cardinality({j \in AdvancingPairs : j <= i})

VelocityProfile == Analysis.velocityAnalysis.velocityProfile

\* C19: velocityProfile holds, in sample order, exactly one velocity for
\* each consecutive pair whose time difference is above 0; a pair whose time
\* difference is 0 or less adds nothing and the pairs after it are still
\* processed.
C19_OneVelocityPerAdvancingPair ==
    trajectoryReport # null =>
        /\ Len(VelocityProfile) = Cardinality(AdvancingPairs)
        /\ \A i \in AdvancingPairs : VelocityProfile[OrdinalOf(i)] = PairVelocity(i)

\* a skipped pair between two processed pairs
C19_Witness ==
    /\ trajectoryReport # null
    /\ \E h, i, j \in 1..(Len(Positions) - 1) :
           /\ h < i /\ i < j
           /\ h \in AdvancingPairs /\ i \notin AdvancingPairs /\ j \in AdvancingPairs
           /\ PairVelocity(h) # PairVelocity(j)
    /\ Len(VelocityProfile) = 2

-----------------------------------------------------------------------------
(* Claims about repeated analysis *)

-----------------------------------------------------------------------------
(* UAVDataProcessor.calculatePerformanceMetrics.  Voltages are in          *)
(* millivolts; percentages in hundredths of a percent; energyPerMeter in   *)
(* ten-thousandths of a volt per metre; distancePerVolt in millimetres per *)
(* volt; projectedFlightTime in thousandths of a second.  An optional      *)
(* field the record lacks is outside its DOMAIN.                           *)

\* the time of the legs flown faster than velocityThreshold = 0.05 m/s
RECURSIVE calculateActiveFlightTime(_, _)
calculateActiveFlightTime(positions, i) ==
    IF i > Len(positions) - 1 THEN 0
    ELSE LET curr      == positions[i + 1]
             prev      == positions[i]
             deltaTime == curr.time - prev.time
             distance  == Distance(curr.x - prev.x, curr.y - prev.y, curr.z - prev.z)
             velocity  == IF deltaTime > 0 THEN distance \div deltaTime ELSE 0
         IN  (IF velocity > 50 THEN deltaTime ELSE 0)
               + calculateActiveFlightTime(positions, i + 1)

calculateEnergyEfficiency(flightData) ==
    IF "battery" \notin DOMAIN flightData \/ flightData.battery.start_voltage = 0
    THEN [estimated |-> TRUE, batteryUtilization |-> 0, energyPerMeter |-> 0,
          projectedFlightTime |-> 0]
    ELSE LET battery         == flightData.battery
             positions       == flightData.position_data
             totalDistance   == ActualDistanceFrom(positions, 2)
             voltageUsed     == battery.start_voltage - battery.minimum_required
             totalFlightTime == positions[Len(positions)].time - positions[1].time
         IN  [estimated |-> FALSE,
              batteryUtilization |-> (voltageUsed * 100 * 100) \div battery.start_voltage,
              energyPerMeter |->
                  IF totalDistance > 0 THEN (voltageUsed * RatioScale) \div totalDistance
                  ELSE 0,
              distancePerVolt |->
                  IF voltageUsed > 0 THEN (totalDistance * Scale) \div voltageUsed ELSE 0,
              projectedFlightTime |->
                  IF voltageUsed > 0
                  THEN (totalFlightTime * battery.start_voltage * Scale) \div voltageUsed
                  ELSE 0]

calculateCommunicationMetrics(flightData) ==
    IF "command_stats" \notin DOMAIN flightData
    THEN [reliability |-> 100 * 100, latency |-> 0, successRate |-> 100 * 100]
    ELSE LET commandStats == flightData.command_stats
             successRate  == IF commandStats.total_attempts > 0
                             THEN (commandStats.sent * 100 * 100) \div commandStats.total_attempts
                             ELSE 100 * 100
             dropRate     == IF commandStats.total_attempts > 0
                             THEN (commandStats.dropped * 100 * 100) \div commandStats.total_attempts
                             ELSE 0
         IN  [successRate |-> successRate, dropRate |-> dropRate,
              reliability |-> 100 * 100 - dropRate,
              commandsSent |-> commandStats.sent,
              commandsDropped |-> commandStats.dropped,
              totalAttempts |-> commandStats.total_attempts]

\* Math.round of the mean of the four scores, each in thousandths of a point
calculateOverallPerformanceScore(positions, flightData) ==
    LET accuracyScore    == calculateAccuracyScore(positions)
        stabilizedCount  == Len(SelectSeq(positions, LAMBDA p : p.stabilized))
        stabilityScore   == (stabilizedCount * 100 * Scale) \div Len(positions)
        responseTime     == IF "response_time" \in DOMAIN flightData
                            THEN flightData.response_time ELSE 0
        totalTime        == positions[Len(positions)].time - positions[1].time
        \* Math.min(100, Math.max(0, 100 - responseTime / totalTime * 100)):
        \* 0/0 leaves NaN, x/0 leaves Math.max(0, -Infinity) = 0
        efficiencyScore  == IF totalTime = 0
                            THEN (IF responseTime = 0 THEN NaN ELSE 0)
                            ELSE Min(100 * Scale,
                                     Max(0, 100 * Scale
                                            - (responseTime * 100 * Scale) \div totalTime))
        reliabilityScore == IF "command_stats" \notin DOMAIN flightData
                               \/ flightData.command_stats.total_attempts = 0
                            THEN 100 * Scale
                            ELSE (flightData.command_stats.sent * 100 * Scale)
                                     \div flightData.command_stats.total_attempts
    IN  IF efficiencyScore = NaN THEN NaN
        ELSE Round((accuracyScore + stabilityScore + efficiencyScore + reliabilityScore)
                      \div 4)

calculatePerformanceMetrics(flightData) ==
    LET positions        == flightData.position_data
        totalTime        == positions[Len(positions)].time - positions[1].time
        activeFlightTime == calculateActiveFlightTime(positions, 1)
    IN  [timeEfficiency |->
             [totalFlightTime  |-> totalTime,
              activeFlightTime |-> activeFlightTime,
              idleTime         |-> totalTime - activeFlightTime,
              efficiencyRatio  |-> Ratio(activeFlightTime, totalTime)],
         energyEfficiency |-> calculateEnergyEfficiency(flightData),
         communicationEfficiency |-> calculateCommunicationMetrics(flightData),
         overallPerformanceScore |->
             calculateOverallPerformanceScore(positions, flightData)]

\* processFlightData calls it between generateTrajectoryReport and
\* analyzeNetworkPerformance
CalculatePerformanceMetrics ==
    /\ pc = "network"
    /\ performanceMetrics = null
    /\ performanceMetrics' = calculatePerformanceMetrics(data)
    /\ UNCHANGED <<data, pc, index, degradationStart, events, degradationEvents,
                   networkSegments, trajectoryReport, qualityAssessment,
                   networkAnalysis, flightReport, validation, repeatedReport,
                   analyses, emitted, request>>

-----------------------------------------------------------------------------
(* Flights from the origin, one sample a second, whose legs move East or   *)
(* hover and whose samples may lack networkQuality, in records with or     *)
(* without the optional battery, command_stats and response_time fields    *)

MaxFrameSamples == 3

RecordFrameSample ==
    /\ Len(data.position_data) < MaxFrameSamples
    /\ \E step \in {0, 1}, kind \in {<<0, undefined, TRUE>>, <<4000, 40, FALSE>>} :
         LET k == Len(data.position_data)
             x == IF k = 0 THEN 0 ELSE data.position_data[k].x + step
         IN  RecordSample(Sample(<<x, 0, 0>>, k, kind[1], kind[2], kind[3]))

\* the record is complete: the ideal route and the optional fields
SubmitRecord ==
    /\ pc = "record"
    /\ Len(data.position_data) > 0
    /\ \E optional \in SUBSET {"battery", "command_stats", "response_time"},
          attempts \in {0, 10} :
         LET whole == [position_data |-> data.position_data,
                       sequence      |-> EndToEnd(data.position_data),
                       battery       |-> [start_voltage |-> 4200,
                                          minimum_required |-> 3800],
                       command_stats |-> [sent |-> (attempts * 9) \div 10,
                                          dropped |-> attempts \div 10,
                                          total_attempts |-> attempts],
                       response_time |-> 1]
         IN  data' = [field \in {"position_data", "sequence"} \cup optional |->
                         whole[field]]
    /\ pc' = "report"
    /\ UNCHANGED <<index, degradationStart, events, degradationEvents,
                   networkSegments, trajectoryReport, qualityAssessment,
                   networkAnalysis, flightReport, validation, repeatedReport,
                   performanceMetrics, analyses, emitted, request>>

NextFrame ==
    \/ RecordFrameSample
    \/ SubmitRecord
    \/ GenerateTrajectoryReport
    \/ CalculatePerformanceMetrics
    \/ (performanceMetrics # null /\ AnalyzeNetworkPerformance)
    \/ AssessFlightQuality

SpecFrame == InitFlight /\ [][NextFrame]_vars

-----------------------------------------------------------------------------
(* The analyses and the flight record *)

-----------------------------------------------------------------------------
(* Flights due East at 1 m/s whose samples may carry a target, some metres *)
(* ahead of the sample, for the deviation trend                            *)

MaxDeviationSamples == 4

\* how far ahead the target lies, in metres; undefined for no target
TargetOffsets == {undefined, 0, 9, 10, 11, 12}

RecordDeviationSample ==
    /\ Len(data.position_data) < MaxDeviationSamples
    /\ \E offset \in TargetOffsets :
         LET k   == Len(data.position_data)
             pos == Sample(<<k, 0, 0>>, k, 0, 100, TRUE)
         IN  RecordSample(IF offset = undefined THEN pos
                          ELSE [field \in DOMAIN pos \cup {"target"} |->
                                   IF field = "target"
                                   THEN [x |-> k + offset, y |-> 0, z |-> 0]
                                   ELSE pos[field]])

NextDeviation ==
    \/ RecordDeviationSample
    \/ SubmitPath
    \/ GenerateTrajectoryReport

SpecDeviation == InitFlight /\ [][NextDeviation]_vars

-----------------------------------------------------------------------------
(* Claims about the deviation trend *)

\* the deviations of the samples that carry a target, in millimetres
Deviations == Map(SelectSeq(Positions, HasTarget), DeviationOf)

\* the reported label
DeviationTrend == trajectoryReport.detailed.pathDeviation.deviationTrend

\* the sum of the deviations from the one at from to the one at to
RECURSIVE DeviationSum(_, _)
DeviationSum(from, to) ==
    IF from > to THEN 0 ELSE Deviations[from] + DeviationSum(from + 1, to)

\* the split point floor(n / 2): the first half is 1..Midpoint
Midpoint == Len(Deviations) \div 2

\* the two means are FirstSum / Midpoint and SecondSum / (n - Midpoint)
FirstSum == DeviationSum(1, Midpoint)

SecondSum == DeviationSum(Midpoint + 1, Len(Deviations))

\* second mean - first mean > 10% of the first mean, cleared of fractions
RisesOverTenPercent ==
    10 * (SecondSum * Midpoint - FirstSum * (Len(Deviations) - Midpoint))
        > FirstSum * (Len(Deviations) - Midpoint)

\* first mean - second mean > 10% of the first mean
FallsOverTenPercent ==
    10 * (FirstSum * (Len(Deviations) - Midpoint) - SecondSum * Midpoint)
        > FirstSum * (Len(Deviations) - Midpoint)

\* the label is the one the 10% rule gives
TrendFollowsTenPercentRule ==
    trajectoryReport # null =>
        IF Len(Deviations) < 2 THEN DeviationTrend = "stable"
        ELSE /\ DeviationTrend = "improving" <=> RisesOverTenPercent
             /\ DeviationTrend = "degrading" <=> FallsOverTenPercent
             /\ DeviationTrend = "stable"
                    <=> (~RisesOverTenPercent /\ ~FallsOverTenPercent)

\* C22: calculateTrend is 'stable' for fewer than 2 values; otherwise it
\* splits the values at floor(n/2) and is 'improving' iff the second-half
\* mean exceeds the first-half mean by more than 10% of it, 'degrading' iff
\* it is lower by more than 10%, 'stable' otherwise; and with a first-half
\* mean of 0 the label is reached without a division by zero.
C22_TrendWithoutZeroDivision ==
    /\ TrendFollowsTenPercentRule
    /\ (trajectoryReport # null /\ Len(Deviations) >= 2)
          => TrendChange(Deviations).divisor # 0

-----------------------------------------------------------------------------
(* server.js: socket.on('startAnalysis').  Every request has its own       *)
(* closure (progress, interval); the events a closure emits on the socket  *)
(* are kept per request, in the order of their emission.                   *)

MaxRequests == 2

Requests == 1..MaxRequests

\* the FlightData collection: flight 1 belongs to user 1
FlightDocuments == {[_id |-> 1, userId |-> 1, flightName |-> "flight 1"]}

\* { flightId, userId } of a request: the user's own flight, or the flight
\* of another user
Payloads == {<<1, 1>>, <<1, 2>>}

\* everything but the socket
flight == <<data, pc, index, degradationStart, events, degradationEvents,
            networkSegments, trajectoryReport, qualityAssessment,
            networkAnalysis, flightReport, validation, repeatedReport,
            performanceMetrics, request>>

InitSocket ==
    /\ data = [position_data |-> <<>>, sequence |-> <<>>]
    /\ pc = "listening"
    /\ index = 0
    /\ degradationStart = null
    /\ events = <<>>
    /\ degradationEvents = null
    /\ networkSegments = null
    /\ trajectoryReport = null
    /\ qualityAssessment = null
    /\ networkAnalysis = null
    /\ flightReport = null
    /\ validation = null
    /\ repeatedReport = null
    /\ performanceMetrics = null
    /\ request = null
    /\ analyses = [r \in Requests |-> null]
    /\ emitted = [r \in Requests |-> <<>>]

\* socket.emit(event, payload) from the closure of request r
Emit(r, event) == emitted' = [emitted EXCEPT ![r] = Append(@, event)]

\* the catch block: socket.emit('analysisComplete', { success: false, ... })
Failure(message) ==
    [event |-> "analysisComplete", success |-> FALSE, message |-> message]

\* the client emits startAnalysis: let progress = 0, setInterval(..., 500)
StartAnalysis(r) ==
    /\ analyses[r] = null
    /\ \E payload \in Payloads :
         analyses' = [analyses EXCEPT ![r] =
                         [flightId |-> payload[1], userId |-> payload[2],
                          progress |-> 0, interval |-> TRUE, awaiting |-> "nothing"]]
    /\ UNCHANGED <<flight, emitted, request>>

\* the callback that emits progress through 100 and completes at 110
IntervalCallbackInclusive(r) ==
    /\ analyses[r] # null
    /\ analyses[r].interval
    /\ LET progress == analyses[r].progress + 10
       IN  IF progress <= 100
           THEN /\ analyses' = [analyses EXCEPT ![r].progress = progress]
                /\ Emit(r, [event |-> "analysisProgress", progress |-> progress])
           ELSE /\ analyses' = [analyses EXCEPT ![r].progress = progress,
                                                ![r].interval = FALSE,
                                                ![r].awaiting = "findOne"]
                /\ UNCHANGED emitted
    /\ UNCHANGED flight

\* the interval fires: progress += 10, then either the progress event or
\* clearInterval and the call of FlightData.findOne
IntervalCallback(r) ==
    /\ analyses[r] # null
    /\ analyses[r].interval
    /\ LET progress == analyses[r].progress + 10
       IN  IF progress < 100
           THEN /\ analyses' = [analyses EXCEPT ![r].progress = progress]
                /\ Emit(r, [event |-> "analysisProgress", progress |-> progress])
           ELSE /\ analyses' = [analyses EXCEPT ![r].progress = progress,
                                                ![r].interval = FALSE,
                                                ![r].awaiting = "findOne"]
                /\ UNCHANGED emitted
    /\ UNCHANGED flight

\* the documents FlightData.findOne({ _id: flightId, userId }) matches
Matching(flightId, userId) ==
    {d \in FlightDocuments : d._id = flightId /\ d.userId = userId}

\* findOne settles, and a request without a document ends without an event
FindOneSettlesSilently(r) ==
    /\ analyses[r] # null
    /\ analyses[r].awaiting = "findOne"
    /\ \E settled \in {"resolved", "rejected"}, analysis \in {"returns", "throws"} :
         LET found == Matching(analyses[r].flightId, analyses[r].userId)
         IN  IF settled = "rejected"
             THEN /\ Emit(r, Failure("findOne rejected"))
                  /\ analyses' = [analyses EXCEPT ![r].awaiting = "nothing"]
             ELSE IF found = {}
             THEN /\ UNCHANGED emitted
                  /\ analyses' = [analyses EXCEPT ![r].awaiting = "nothing"]
             ELSE IF analysis = "throws"
             THEN /\ Emit(r, Failure("analysis failed"))
                  /\ analyses' = [analyses EXCEPT ![r].awaiting = "nothing"]
             ELSE /\ UNCHANGED emitted
                  /\ analyses' = [analyses EXCEPT ![r].awaiting = "save"]
    /\ UNCHANGED flight

\* await FlightData.findOne settles: a rejection and a missing document
\* ('Flight data not found') go to the catch block; with a document the
\* analysis result is computed, which may throw, and report.save() is called
FindOneSettles(r) ==
    /\ analyses[r] # null
    /\ analyses[r].awaiting = "findOne"
    /\ \E settled \in {"resolved", "rejected"}, analysis \in {"returns", "throws"} :
         LET found == Matching(analyses[r].flightId, analyses[r].userId)
         IN  IF settled = "rejected"
             THEN /\ Emit(r, Failure("findOne rejected"))
                  /\ analyses' = [analyses EXCEPT ![r].awaiting = "nothing"]
             ELSE IF found = {}
             THEN /\ Emit(r, Failure("Flight data not found"))
                  /\ analyses' = [analyses EXCEPT ![r].awaiting = "nothing"]
             ELSE IF analysis = "throws"
             THEN /\ Emit(r, Failure("analysis failed"))
                  /\ analyses' = [analyses EXCEPT ![r].awaiting = "nothing"]
             ELSE /\ UNCHANGED emitted
                  /\ analyses' = [analyses EXCEPT ![r].awaiting = "save"]
    /\ UNCHANGED flight

\* await report.save() settles: the saved report, or the catch block
SaveSettles(r) ==
    /\ analyses[r] # null
    /\ analyses[r].awaiting = "save"
    /\ \E settled \in {"resolved", "rejected"} :
         Emit(r, IF settled = "resolved"
                 THEN [event |-> "analysisComplete", success |-> TRUE,
                       report |-> [flightId |-> analyses[r].flightId,
                                   userId   |-> analyses[r].userId]]
                 ELSE Failure("save rejected"))
    /\ analyses' = [analyses EXCEPT ![r].awaiting = "nothing"]
    /\ UNCHANGED flight

NextSocket ==
    \E r \in Requests :
        \/ StartAnalysis(r)
        \/ IntervalCallback(r)
        \/ FindOneSettles(r)
        \/ SaveSettles(r)

SpecSocket == InitSocket /\ [][NextSocket]_vars

\* the timers of a running server keep firing, and a database call is
\* resolved or rejected in the end
LiveSocket ==
    /\ SpecSocket
    /\ \A r \in Requests :
         /\ WF_vars(IntervalCallback(r))
         /\ WF_vars(FindOneSettles(r))
         /\ WF_vars(SaveSettles(r))

-----------------------------------------------------------------------------
(* Claims about startAnalysis *)

\* the analysisComplete events of request r
Completions(r) ==
    SelectSeq(emitted[r], LAMBDA e : e.event = "analysisComplete")

\* C23: for every request the server emits analysisProgress with progress
\* 10, 20, ..., 90 in that order, all of them before the request's
\* analysisComplete, and nothing for the request after its analysisComplete.
C23_ProgressThenComplete ==
    \A r \in Requests :
        \A k \in 1..Len(emitted[r]) :
            IF k <= 9
            THEN emitted[r][k] = [event |-> "analysisProgress", progress |-> 10 * k]
            ELSE k = 10 /\ emitted[r][k].event = "analysisComplete"

\* one request has had its nine progress events and its completion while
\* another is part of the way through its own
C23_Witness ==
    \E r, s \in Requests :
        /\ Len(emitted[r]) = 10
        /\ emitted[r][10].event = "analysisComplete"
        /\ Len(emitted[s]) \in 1..8

\* C24: every startAnalysis request in the end has exactly one
\* analysisComplete, which is success: true with the saved report or
\* success: false with a message, whatever the other requests on the
\* socket are doing.
C24_OneCompletionEach ==
    \A r \in Requests :
        /\ [](analyses[r] # null => <>(Len(Completions(r)) = 1))
        /\ [](/\ Len(Completions(r)) <= 1
              /\ \A k \in 1..Len(Completions(r)) :
                   IF Completions(r)[k].success
                   THEN DOMAIN Completions(r)[k] = {"event", "success", "report"}
                   ELSE DOMAIN Completions(r)[k] = {"event", "success", "message"})

\* a request has completed with its report while another, started too, is
\* still waiting for its flight
C24_Witness ==
    \E r, s \in Requests :
        /\ Len(Completions(r)) = 1 /\ Completions(r)[1].success
        /\ analyses[s] # null /\ analyses[s].awaiting = "findOne"
        /\ Completions(s) = <<>>

-----------------------------------------------------------------------------
(* UAVDataProcessor.processFlightData and calculateAnalysis, as            *)
(* FlightController.uploadFlightData calls them                            *)

\* of calculateAnalysis: the counts, the error statistics and the defaults
\* of the optional fields (voltages in millivolts)
calculateAnalysis(flightData) ==
    LET positions         == flightData.position_data
        errors            == SelectSeq(Map(positions, ErrorOf), LAMBDA e : e # undefined)
        waypointPositions == SelectSeq(positions, LAMBDA p : p.phase = "waypoint")
        waypointErrors    == SelectSeq(Map(waypointPositions, ErrorOf),
                                       LAMBDA e : e # undefined)
    IN  [totalPoints    |-> Len(positions),
         waypointPoints |-> Len(waypointPositions),
         transitPoints  |-> Len(positions) - Len(waypointPositions),
         responseTime   |-> IF "response_time" \in DOMAIN flightData
                            THEN flightData.response_time ELSE 0,
         positionAccuracy |->
             [overall  |-> calculateStats(errors),
              waypoint |-> [stats      |-> calculateStats(waypointErrors),
                            count      |-> Len(waypointPositions),
                            percentage |-> (Len(waypointPositions) * 100 * 100)
                                              \div Len(positions)]],
         battery |->
             [startVoltage    |-> IF "battery" \in DOMAIN flightData
                                  THEN flightData.battery.start_voltage ELSE 0,
              minimumRequired |-> IF "battery" \in DOMAIN flightData
                                  THEN flightData.battery.minimum_required ELSE 3800],
         commandStats |->
             IF "command_stats" \in DOMAIN flightData
             THEN [sent          |-> flightData.command_stats.sent,
                   dropped       |-> flightData.command_stats.dropped,
                   totalAttempts |-> flightData.command_stats.total_attempts]
             ELSE [sent |-> 0, dropped |-> 0, totalAttempts |-> 0]]

\* point.networkQuality || 100 and the other fields as they are
ProcessedPosition(point) ==
    [point EXCEPT !.networkQuality = OrDefault100(@)]

processFlightData(jsonData, metadata) ==
    LET report == generateTrajectoryReport(jsonData)
    IN  [flightName         |-> metadata.flightName,
         timestamp          |-> jsonData.timestamp,
         sequence           |-> jsonData.sequence,
         positionData       |-> Map(jsonData.position_data, ProcessedPosition),
         analysis           |-> calculateAnalysis(jsonData),
         trajectoryAnalysis |-> report,
         performanceMetrics |-> calculatePerformanceMetrics(jsonData),
         networkAnalysis    |-> analyzeNetworkPerformance(jsonData),
         qualityAssessment  |-> assessFlightQuality(jsonData, report)]

-----------------------------------------------------------------------------
(* FlightController.uploadFlightData.  request holds the temp file multer  *)
(* stored (file), the response sent (response), what processFlightData     *)
(* returned (processedData) and the FlightData collection (documents).     *)

MaxHandlerSamples == 3

\* the file of the upload, whole
WholeUpload(positions) ==
    [timestamp     |-> 1,
     position_data |-> positions,
     sequence      |-> IF positions = <<>> THEN <<>> ELSE EndToEnd(positions)]

\* the same without one of its fields, or with a first sample that lacks a
\* required field
Uploads(positions) ==
    LET whole == WholeUpload(positions)
    IN  {whole}
        \cup {[field \in DOMAIN whole \ {lacking} |-> whole[field]] :
                 lacking \in DOMAIN whole}
        \cup (IF positions = <<>> THEN {}
              ELSE {[whole EXCEPT !.position_data[1] =
                        [field \in DOMAIN positions[1] \ {lacking} |->
                            positions[1][field]]] :
                      lacking \in {"x", "y", "z", "time", "phase"}})

InitHandler ==
    /\ data = [position_data |-> <<>>, sequence |-> <<>>]
    /\ pc = "record"
    /\ index = 0
    /\ degradationStart = null
    /\ events = <<>>
    /\ degradationEvents = null
    /\ networkSegments = null
    /\ trajectoryReport = null
    /\ qualityAssessment = null
    /\ networkAnalysis = null
    /\ flightReport = null
    /\ validation = null
    /\ repeatedReport = null
    /\ performanceMetrics = null
    /\ analyses = null
    /\ emitted = null
    /\ request = [file |-> "none", response |-> null, processedData |-> null,
                  documents |-> <<>>]

RecordHandlerSample ==
    /\ pc = "record"
    /\ Len(data.position_data) < MaxHandlerSamples
    /\ \E kind \in {<<0, undefined, TRUE>>, <<4000, 40, FALSE>>} :
         LET k == Len(data.position_data)
         IN  RecordSample(Sample(<<k, 0, 0>>, k, kind[1], kind[2], kind[3]))

\* res.status(status).json(body)
Response(status, body) == [status |-> status, body |-> body]

\* the invalid verdict answered with the temp file left in place
InvalidUploadKeepingFile(verdict) ==
    [request EXCEPT !.file = "stored",
                    !.response = Response(400, [success |-> FALSE,
                                                message |-> verdict.error])]

\* if (!validation.valid): unlinkSync(filePath) and the 400 response
InvalidUpload(verdict) ==
    [request EXCEPT !.file = "deleted",
                    !.response = Response(400, [success |-> FALSE,
                                                message |-> verdict.error])]

\* the catch block: the temp file is deleted if there is one, and 500
UploadFailed(message) ==
    [request EXCEPT !.file = IF request.file = "none" THEN "none" ELSE "deleted",
                    !.response = Response(500, [success |-> FALSE,
                                                message |-> message])]

\* the handler up to its response or to await flightData.save()
UploadFlightData ==
    /\ pc = "record"
    /\ \E file \in {"no file", "not JSON", "JSON"},
          content \in Uploads(data.position_data),
          flightName \in {"", "survey"} :
         IF file = "no file"
         THEN /\ request' = [request EXCEPT !.response =
                                Response(400, [success |-> FALSE,
                                               message |-> "No file uploaded"])]
              /\ pc' = "responded"
              /\ UNCHANGED <<data, validation>>
         ELSE IF file = "not JSON"
         THEN /\ request' = [UploadFailed("Upload processing failed: JSON.parse")
                                EXCEPT !.file = "deleted"]
              /\ pc' = "responded"
              /\ UNCHANGED <<data, validation>>
         ELSE /\ data' = content
              /\ validation' = validateFlightData(content)
              /\ IF ~validation'.valid
                 THEN /\ request' = InvalidUpload(validation')
                      /\ pc' = "responded"
                 ELSE /\ request' =
                          [request EXCEPT
                             !.file = "stored",
                             !.processedData =
                                 processFlightData(content,
                                     [flightName |->
                                         IF flightName = ""
                                         THEN <<"Flight_", content.timestamp>>
                                         ELSE flightName])]
                      /\ pc' = "saving"
    /\ UNCHANGED <<index, degradationStart, events, degradationEvents,
                   networkSegments, trajectoryReport, qualityAssessment,
                   networkAnalysis, flightReport, repeatedReport,
                   performanceMetrics, analyses, emitted>>

\* await flightData.save() settles: the document is in the collection, the
\* temp file is deleted and the summary is sent; or the catch block
FlightSaveSettles ==
    /\ pc = "saving"
    /\ \E settled \in {"resolved", "rejected"} :
         request' =
             IF settled = "resolved"
             THEN [request EXCEPT
                     !.documents = Append(@, request.processedData),
                     !.file = "deleted",
                     !.response =
                         Response(200,
                             [success |-> TRUE,
                              summary |->
                                  [flightName   |-> request.processedData.flightName,
                                   totalPoints  |-> request.processedData.analysis.totalPoints,
                                   qualityScore |-> request.processedData
                                                       .qualityAssessment.overallScore]])]
             ELSE UploadFailed("Upload processing failed: save")
    /\ pc' = "responded"
    /\ UNCHANGED <<data, index, degradationStart, events, degradationEvents,
                   networkSegments, trajectoryReport, qualityAssessment,
                   networkAnalysis, flightReport, validation, repeatedReport,
                   performanceMetrics, analyses, emitted>>

NextHandler ==
    \/ RecordHandlerSample
    \/ UploadFlightData
    \/ FlightSaveSettles

SpecHandler == InitHandler /\ [][NextHandler]_vars

-----------------------------------------------------------------------------
(* Claims about uploadFlightData *)

\* C25: when validateFlightData reports the parsed record invalid, the
\* handler deletes the uploaded temp file, responds 400 with the validation
\* error, has not called processFlightData and saves no FlightData
\* document; processFlightData is called and a document saved only after a
\* valid verdict.
C25_ValidationBeforeAnalysis ==
    /\ (validation # null /\ ~validation.valid) =>
          /\ request.file = "deleted"
          /\ request.response = Response(400, [success |-> FALSE,
                                               message |-> validation.error])
          /\ request.processedData = null
          /\ request.documents = <<>>
    /\ (request.processedData # null \/ request.documents # <<>>) =>
          (validation # null /\ validation.valid)

\* a record whose first sample lacks a field has been turned away
C25_Witness ==
    /\ pc = "responded"
    /\ validation # null /\ ~validation.valid
    /\ "position_data" \in DOMAIN data
    /\ Len(data.position_data) > 1
    /\ request.response.status = 400

-----------------------------------------------------------------------------
(* routes/dashboard.js: the dashboard, analysis and flights routers, each  *)
(* a list of routes in the order of their registration.  A path is the     *)
(* sequence of its segments below the mount point; the requests are those  *)
(* that authenticateToken lets through.                                    *)

Route(method, path, handler) ==
    [method |-> method, path |-> path, handler |-> handler]

dashboardRouter ==
    <<Route("GET", <<"data">>, "getDashboardData"),
      Route("GET", <<"activity">>, "getActivityTimeline")>>

analysisRouter ==
    <<Route("GET", <<"start", ":flightId">>, "startAnalysis"),
      Route("GET", <<"reports">>, "listReports"),
      Route("GET", <<"reports", ":reportId">>, "getReport"),
      Route("GET", <<"export", ":reportId">>, "exportReport"),
      Route("DELETE", <<"reports", ":reportId">>, "deleteReport"),
      Route("GET", <<"reports", "pdf">>, "exportSelectedReportsPdf")>>

flightsRouter ==
    <<Route("POST", <<"upload">>, "uploadFlightData"),
      Route("GET", <<>>, "getFlightHistory"),
      Route("GET", <<":flightId">>, "getFlightDetails"),
      Route("GET", <<":flightId", "visualization">>, "getVisualizationData"),
      Route("GET", <<":flightId", "report">>, "generateReport"),
      Route("GET", <<":flightId", "trajectory-analysis">>, "getTrajectoryAnalysis"),
      Route("POST", <<"compare">>, "compareFlights"),
      Route("GET", <<"performance-trends">>, "getPerformanceTrends"),
      Route("PUT", <<":flightId">>, "updateFlight"),
      Route("DELETE", <<":flightId">>, "deleteFlight")>>

\* server.js: app.use('/api/flights', ...), ('/api/dashboard', ...),
\* ('/api/analysis', ...)
Routers ==
    [flights |-> flightsRouter, dashboard |-> dashboardRouter,
     analysis |-> analysisRouter]

\* a named parameter takes any one segment
IsParameter(segment) == segment \in {":flightId", ":reportId"}

Matches(route, method, path) ==
    /\ route.method = method
    /\ Len(route.path) = Len(path)
    /\ \A k \in 1..Len(path) :
         IsParameter(route.path[k]) \/ route.path[k] = path[k]

\* the handler of the first route from the k-th on that matches; none of
\* the handlers calls next(), so no later route sees the request.  A
\* request no route matches reaches the catch-all of server.js.
RECURSIVE Dispatch(_, _, _, _)
Dispatch(router, k, method, path) ==
    IF k > Len(router) THEN "API endpoint not found"
    ELSE IF Matches(router[k], method, path) THEN router[k].handler
    ELSE Dispatch(router, k + 1, method, path)

MaxSegments == 2

Methods == {"GET", "POST", "PUT", "DELETE"}

\* the literal segments of the routes, the documented 'history', and an id
Segments ==
    {"data", "activity", "start", "reports", "export", "pdf", "upload",
     "visualization", "report", "trajectory-analysis", "compare",
     "performance-trends", "history", "64f0c0ffee"}

InitRouter ==
    /\ data = [position_data |-> <<>>, sequence |-> <<>>]
    /\ pc = "listening"
    /\ index = 0
    /\ degradationStart = null
    /\ events = <<>>
    /\ degradationEvents = null
    /\ networkSegments = null
    /\ trajectoryReport = null
    /\ qualityAssessment = null
    /\ networkAnalysis = null
    /\ flightReport = null
    /\ validation = null
    /\ repeatedReport = null
    /\ performanceMetrics = null
    /\ analyses = null
    /\ emitted = null
    /\ request = null

\* everything but the request
serving == <<data, index, degradationStart, events, degradationEvents,
             networkSegments, trajectoryReport, qualityAssessment,
             networkAnalysis, flightReport, validation, repeatedReport,
             performanceMetrics, analyses, emitted>>

\* a request line arrives: the method and the mount point of its path
ReceiveRequest ==
    /\ pc = "listening"
    /\ \E method \in Methods, mount \in DOMAIN Routers :
         request' = [method |-> method, mount |-> mount, path |-> <<>>]
    /\ pc' = "parsing"
    /\ UNCHANGED serving

\* the next segment of the path
ReadSegment ==
    /\ pc = "parsing"
    /\ Len(request.path) < MaxSegments
    /\ \E segment \in Segments :
         request' = [request EXCEPT !.path = Append(@, segment)]
    /\ UNCHANGED <<pc, serving>>

\* the router of the mount point hands the request to a handler
DispatchRequest ==
    /\ pc = "parsing"
    /\ request' = [method  |-> request.method,
                   mount   |-> request.mount,
                   path    |-> request.path,
                   handler |-> Dispatch(Routers[request.mount], 1,
                                        request.method, request.path)]
    /\ pc' = "handled"
    /\ UNCHANGED serving

NextRouter ==
    \/ ReceiveRequest
    \/ ReadSegment
    \/ DispatchRequest

SpecRouter == InitRouter /\ [][NextRouter]_vars

-----------------------------------------------------------------------------
(* Claims about the routers *)

\* the routes of a router whose path has no parameter
LiteralRoutes(router) ==
    {k \in 1..Len(router) :
        \A s \in 1..Len(router[k].path) : ~IsParameter(router[k].path[s])}

\* C26: every literal route is reached through the first-match dispatch and
\* is not taken by an earlier parameterized route: a request with the
\* method and the path of a literal route goes to that route's handler, so
\* GET /api/analysis/reports/pdf goes to exportSelectedReportsPdf and
\* GET /api/flights/performance-trends goes to getPerformanceTrends.
C26_LiteralRoutesReachable ==
    pc = "handled" =>
        \A k \in LiteralRoutes(Routers[request.mount]) :
            LET route == Routers[request.mount][k]
            IN  (route.method = request.method /\ route.path = request.path)
                    => request.handler = route.handler

\* the same for the routes that no earlier parameterized route matches
LiteralRoutesNotShadowed ==
    pc = "handled" =>
        \A k \in LiteralRoutes(Routers[request.mount]) :
            LET router == Routers[request.mount]
                route  == router[k]
            IN  (/\ route.method = request.method
                 /\ route.path = request.path
                 /\ \A j \in 1..(k - 1) :
                       ~Matches(router[j], request.method, request.path))
                    => request.handler = route.handler

-----------------------------------------------------------------------------
(* Claims about the events of the detector.  A sample's quality is its     *)
(* networkQuality, or 100 when it carries none.                            *)

\* the first sample of the run of samples below 70 that is open at the last
\* sample read, if there is one
OpenRuns == {s \in 0..(NumSamples - 1) : RunStart(s) /\ RunEnd(s) = NumSamples}

\* C27: a degradation window that is still open at the last sample (the
\* quality went below 70 and has not been 70 or more since) has left no
\* event, however long it has lasted; an event is emitted only at a sample
\* of quality 70 or more.
C27_OpenWindowEmitsNothing ==
    /\ \A s \in OpenRuns : \A k \in 1..Len(events) : events[k].endIndex < s
    /\ \A k \in 1..Len(events) : QualityAt(events[k].endIndex) >= 70

\* the same with the quality the detector computes itself (line 355)
OwnOpenRuns ==
    {s \in 0..(NumSamples - 1) :
        OwnBelow(s) /\ (s = 0 \/ ~OwnBelow(s - 1)) /\ OwnRunEnd(s) = NumSamples}

OpenWindowEmitsNothingOnOwnQuality ==
    /\ \A s \in OwnOpenRuns : \A k \in 1..Len(events) : events[k].endIndex < s
    /\ \A k \in 1..Len(events) : ~OwnBelow(events[k].endIndex)
    /\ \A s \in OwnOpenRuns : degradationStart # null /\ degradationStart.index = s

\* C28: every event has startIndex < endIndex and duration = endTime -
\* startTime >= 2, every sample in startIndex..endIndex-1 has quality below
\* 70 and the sample at endIndex has quality 70 or more; the events are in
\* increasing index order and the endIndex of one is strictly less than the
\* startIndex of the next.
C28_EventsWellFormedAndDisjoint ==
    /\ \A k \in 1..Len(events) :
         LET ev == events[k]
         IN  /\ ev.startIndex < ev.endIndex
             /\ ev.duration = ev.endTime - ev.startTime
             /\ ev.startTime = TimeOf(ev.startIndex)
             /\ ev.endTime = TimeOf(ev.endIndex)
             /\ ev.duration >= 2
             /\ \A i \in ev.startIndex..(ev.endIndex - 1) : Below(i)
             /\ ~Below(ev.endIndex)
    /\ \A k \in 1..(Len(events) - 1) :
         events[k].endIndex < events[k + 1].startIndex

\* the same with the quality the detector computes itself
EventsWellFormedOnOwnQuality ==
    /\ \A k \in 1..Len(events) :
         LET ev == events[k]
         IN  /\ ev.startIndex < ev.endIndex
             /\ ev.duration = ev.endTime - ev.startTime
             /\ ev.startTime = TimeOf(ev.startIndex)
             /\ ev.endTime = TimeOf(ev.endIndex)
             /\ ev.duration >= 2
             /\ \A i \in ev.startIndex..(ev.endIndex - 1) : OwnBelow(i)
             /\ ~OwnBelow(ev.endIndex)
    /\ \A k \in 1..(Len(events) - 1) :
         events[k].endIndex < events[k + 1].startIndex

\* C29: the endIndex of every degradation event is the index of a recovery
\* event of analyzeNetworkRecovery, so there are at least as many
\* recoveries as degradation events, also when samples lack networkQuality.
C29_EveryEventEndsInARecovery ==
    networkAnalysis # null =>
        LET recoveryEvents == networkAnalysis.recoveryMetrics.recoveryEvents
        IN  /\ \A k \in 1..Len(networkAnalysis.degradationEvents) :
                 \E j \in 1..Len(recoveryEvents) :
                    recoveryEvents[j].index =
                        networkAnalysis.degradationEvents[k].endIndex
            /\ networkAnalysis.recoveryMetrics.totalRecoveries
                  >= Len(networkAnalysis.degradationEvents)

\* the same on records whose samples all carry a networkQuality other than 0
EventsEndInRecoveriesWhenEverySampleHasQuality ==
    (\A k \in 1..Len(Positions) :
        Positions[k].networkQuality # undefined /\ Positions[k].networkQuality # 0)
        => C29_EveryEventEndsInARecovery

-----------------------------------------------------------------------------
(* Claims about turns on flights that pause: legs without horizontal       *)
(* displacement between legs of one constant horizontal direction          *)

\* the horizontal displacement of the leg that ends at sample k (1-based)
LegOf(positions, k) ==
    <<positions[k].x - positions[k - 1].x, positions[k].y - positions[k - 1].y>>

IsPause(positions, k) == LegOf(positions, k) = <<0, 0>>

\* two horizontal displacements point the same way
SameDirection(a, b) ==
    /\ a[1] * b[2] = a[2] * b[1]
    /\ a[1] * b[1] + a[2] * b[2] > 0

\* every leg that moves has the direction of every other leg that moves
ConstantDirection(positions) ==
    \A j, k \in 2..Len(positions) :
        (~IsPause(positions, j) /\ ~IsPause(positions, k))
            => SameDirection(LegOf(positions, j), LegOf(positions, k))

HasPause(positions) == \E k \in 2..Len(positions) : IsPause(positions, k)

HasMovingLeg(positions) == \E k \in 2..Len(positions) : ~IsPause(positions, k)

\* the flight moves due East wherever it moves
DueEast(positions) ==
    \A k \in 2..Len(positions) :
        LegOf(positions, k)[2] = 0 /\ LegOf(positions, k)[1] >= 0

\* the samples (1-based) between a pause and a leg that moves
PauseBoundaries(positions) ==
    {k \in 2..(Len(positions) - 1) :
        IsPause(positions, k) # IsPause(positions, k + 1)}

\* C30: a flight that moves in one constant horizontal direction,
\* interrupted by any number of legs without horizontal displacement, has
\* totalTurns = 0, whatever the direction is.
C30_PausesMakeNoTurns ==
    (trajectoryReport # null /\ ConstantDirection(data.position_data))
        => TurnAnalysis.totalTurns = 0

\* a flight of one constant direction without a pause has no turn
StraightFlightHasNoTurns ==
    (/\ trajectoryReport # null
     /\ ConstantDirection(data.position_data)
     /\ ~HasPause(data.position_data))
        => TurnAnalysis.totalTurns = 0

\* a paused flight due East has no turn: its bearing is the 0 of atan2(0, 0)
EastwardPausesMakeNoTurns ==
    (trajectoryReport # null /\ DueEast(data.position_data))
        => TurnAnalysis.totalTurns = 0

\* in every other compass direction each sample between a pause and a leg
\* that moves is counted as a turn
PausesCountAsTurns ==
    (/\ trajectoryReport # null
     /\ ConstantDirection(data.position_data)
     /\ ~DueEast(data.position_data))
        => TurnAnalysis.totalTurns = Cardinality(PauseBoundaries(data.position_data))

====
